---- MODULE Spec2Model ----
(***************************************************************************)
(* A cluster of Maelstrom nodes (frankPairs/maelstrom).  Every node is one *)
(* process of one workload binary: broadcast, g-counter, unique-id or      *)
(* echo.  A process has a stdin thread that turns inbound lines into Reply *)
(* events on an mpsc channel, a gossip thread that turns the shared state  *)
(* into Push events, and the main thread that consumes the channel, runs   *)
(* Node::handle and writes lines to standard output.  The harness carries  *)
(* output lines addressed to a node to that node's standard input.         *)
(***************************************************************************)
EXTENDS Integers, Sequences, FiniteSets, TLC

VARIABLES
    workload,          \* which binary every process of the cluster runs
    status,            \* per process: "ext" (a peer outside the model), "boot"
                       \* (awaits its first line), "run", "failed" (ended
                       \* on an Err or a panic of main), "exited" (main
                       \* returned Ok)
    node_id,           \* Node.node_id ("" before init)
    node_ids,          \* Node.node_ids (<<>> before init)
    last_message_id,   \* NodeState.last_message_id
    messages,          \* NodeState.messages (broadcast)
    pending_to_send,   \* NodeState.pending_to_send (broadcast)
    neighbors,         \* NodeState.neighbors (broadcast); the neighbors main
                       \* hands its gossip thread (g-counter)
    counter,           \* NodeState.counter.data (g-counter)
    gossip,            \* gossip thread: "none" (not spawned), "run", "done";
                       \* where a tick is taken apart, also "locked" (holds
                       \* the state mutex, nothing sent) and "sent" (holds
                       \* it, its Push events sent)
    stdin,             \* stdin thread: "none" (not spawned), "read" (in its
                       \* loop over the lines), "error" (ended on a line that
                       \* does not parse), "eof" (ended after the last line)
    bus,               \* the mpsc channel of Events, per process
    net,               \* lines written to a node's address, not yet delivered
    inputs_open,       \* the clients may still send state-changing requests
    faults,            \* how many lines the harness has lost or repeated
    stale,             \* lines the harness holds back, to deliver them late
    step,              \* history: when the step that led here was one of a main
                       \* thread, its node, the message it handled and the lines
                       \* it wrote; otherwise NoStep
    gossip_ids,        \* history: msg_id of the last gossip the process wrote
                       \* before its last step (0 if none), then those of the
                       \* gossips that step wrote
    broadcasted,       \* history: every value of a broadcast request a node handled
    applied,           \* history: the sum of the deltas of the adds the nodes handled
    last_read,         \* history: the value of the last read_ok the process wrote
    issued,            \* history: the ids the generate_ok replies carried
    reissued           \* history: some generate_ok carried an id issued before

\* The identity of the processes.
idVars == <<workload, status, node_id, node_ids>>

\* The state of the broadcast workload and its history.
bVars == <<messages, pending_to_send, broadcasted>>

\* The state of the g-counter workload and its history.
gVars == <<counter, applied, last_read>>

\* The history of the unique-id workload.
uVars == <<issued, reissued>>

\* The faults of the harness so far.
hVars == <<faults, stale>>

vars == <<idVars, last_message_id, neighbors, bVars, gVars, uVars, gossip,
          stdin, bus, net, inputs_open, hVars, step, gossip_ids>>

----------------------------------------------------------------------------
(* Bounds and input sets *)

\* The gossip thread of the model takes a tick only while fewer than MaxBus
\* Push events wait in the (unbounded) channel of its process.
MaxBus == 1

\* Reply events (lines read, not yet handled) the model lets wait in it.
MaxLines == 1

\* The gossip thread of the model takes a tick only while fewer than MaxNet
\* gossips and gossip_oks of earlier ticks are on their way in the cluster.
MaxNet == 1

\* The cluster membership the harness sends in every init, in order.
NodeIds == <<"n1", "n2", "n3">>

\* The clients that send init and read, each with the msg_id it stamps on
\* its requests.
Requests == {<<"c1", 7>>, <<"c2", 9>>}

\* The clients that send the other requests.
Writers == {<<"c1", 7>>}

\* msg_id values the peers outside the model stamp on their gossips.
PeerMsgIds == {3}

\* Integers the clients broadcast, and the peers outside the model gossip.
Values == {1, 2}

\* Integers the clients broadcast to the nodes of the cluster.
ClusterValues == {1}

Range(s) == {s[i] : i \in 1..Len(s)}

Nodes == Range(NodeIds)

NoId == 0

----------------------------------------------------------------------------
(* Messages of the broadcast workload *)

Msg(src, dest, type, msg_id, in_reply_to, message, msgs) ==
    [src |-> src, dest |-> dest, type |-> type, msg_id |-> msg_id,
     in_reply_to |-> in_reply_to, message |-> message, messages |-> msgs]

Reply(m) == [kind |-> "Reply", msg |-> m]
Push(m) == [kind |-> "Push", msg |-> m]

\* Event::Shutdown, which carries no message.
Shutdown ==
    [kind |-> "Shutdown", msg |-> Msg("", "", "none", NoId, NoId, 0, {})]

\* The events of kind k waiting in the channel b.
Kind(b, k) == SelectSeq(b, LAMBDA e : e.kind = k)

\* Topology::StarTopology.get_topology: the first id is the hub.
StarTopology(ids) ==
    [k \in Range(ids) |->
        IF k = ids[1] THEN Tail(ids) ELSE <<ids[1]>>]

\* Node::init of the broadcast node: the reply to an init first line.
InitOk(req) ==
    Msg(req.node_id, req.src, "init_ok", NoId, req.msg_id, 0, {})

\* A reply body of the broadcast node; NoBody is the None of Node::handle.
Body(type, in_reply_to, msgs) ==
    [type |-> type, in_reply_to |-> in_reply_to, messages |-> msgs]

NoBody == Body("none", NoId, {})

\* What an arm of Node::handle yields: the state st = [messages,
\* pending_to_send, neighbors, last_message_id] after it, the optional reply
\* body and whether the call returned Err.
Handled(st, body, err) == [st |-> st, body |-> body, err |-> err]

\* The Broadcast arm without its state.messages.insert(message).
HandleBroadcastPendingOnly(st, req) ==
    Handled([st EXCEPT !.pending_to_send = @ \cup {req.message}],
            Body("broadcast_ok", req.msg_id, {}), FALSE)

\* A Broadcast arm that stamps the request as the Add arm of the g-counter
\* node does: it takes the next last_message_id.
HandleBroadcastStamped(st, req) ==
    Handled([st EXCEPT !.messages = @ \cup {req.message},
                       !.pending_to_send = @ \cup {req.message},
                       !.last_message_id = @ + 1],
            Body("broadcast_ok", req.msg_id, {}), FALSE)

\* A Broadcast arm that inserts the msg_id of the request for its message.
HandleBroadcastMsgId(st, req) ==
    Handled([st EXCEPT !.messages = @ \cup {req.msg_id},
                       !.pending_to_send = @ \cup {req.msg_id}],
            Body("broadcast_ok", req.msg_id, {}), FALSE)

\* Node::handle, arm MessageBody::Broadcast.
HandleBroadcast(st, req) ==
    Handled([st EXCEPT !.messages = @ \cup {req.message},
                       !.pending_to_send = @ \cup {req.message}],
            Body("broadcast_ok", req.msg_id, {}), FALSE)

\* A Read arm that leaves in_reply_to unset.
HandleReadUncorrelated(st, req) ==
    Handled(st, Body("read_ok", NoId, st.messages), FALSE)

\* Node::handle, arm MessageBody::Read.
HandleRead(st, req) ==
    Handled(st, Body("read_ok", req.msg_id, st.messages), FALSE)

\* A Topology arm that takes the neighbors the message suggests.
HandleTopologySuggested(self, ids, st, req) ==
    IF self \in DOMAIN req.topology
    THEN Handled([st EXCEPT !.neighbors = req.topology[self]],
                 Body("topology_ok", req.msg_id, {}), FALSE)
    ELSE Handled(st, NoBody, TRUE)

\* Node::handle, arm MessageBody::Topology, for the node with id self and
\* membership ids.
HandleTopology(self, ids, st, req) ==
    LET topology == StarTopology(ids)
    IN IF self \in DOMAIN topology
       THEN Handled([st EXCEPT !.neighbors = topology[self]],
                    Body("topology_ok", req.msg_id, {}), FALSE)
       ELSE Handled(st, NoBody, TRUE)

\* A Gossip arm that takes the incoming set in place of its own.
HandleGossipReplacing(st, req) ==
    LET after == [st EXCEPT !.messages = req.messages]
    IN Handled(after, Body("gossip_ok", req.msg_id, after.messages), FALSE)

\* Node::handle, arm MessageBody::Gossip.
HandleGossip(st, req) ==
    LET external_messages == req.messages
        internal_messages == st.messages
        new_messages ==
            {m \in internal_messages : m \notin external_messages}
        after == [st EXCEPT !.pending_to_send = @ \cup new_messages,
                            !.messages = @ \cup external_messages]
    IN Handled(after, Body("gossip_ok", req.msg_id, after.messages), FALSE)

\* A GossipOk arm that merges the payload and re-queues nothing.
HandleGossipOkMergeOnly(st, req) ==
    Handled([st EXCEPT !.messages = @ \cup req.messages], NoBody, FALSE)

\* Node::handle, arm MessageBody::GossipOk.
HandleGossipOk(st, req) ==
    LET external_messages == req.messages
        internal_messages == st.messages
        lost_messages ==
            {m \in internal_messages : m \notin external_messages}
    IN Handled([st EXCEPT !.pending_to_send = @ \cup lost_messages,
                          !.messages = @ \cup external_messages],
               NoBody, FALSE)

\* The variants of MessageBody that Node::handle has no arm of its own for.
Unhandled == {"init", "init_ok", "broadcast_ok", "read_ok", "topology_ok"}

\* A last arm that drops the message: no reply, no failure.
HandleOtherDropped(st, req) == Handled(st, NoBody, FALSE)

\* Node::handle, last arm: unimplemented! panics, on the main thread, so the
\* process ends with a failure as it does when handle returns Err.
HandleOther(st, req) == Handled(st, NoBody, TRUE)

\* Node::handle of the broadcast node n on state st.
Handle(n, st, req) ==
    CASE req.type = "broadcast" -> HandleBroadcast(st, req)
      [] req.type = "read" -> HandleRead(st, req)
      [] req.type = "topology" ->
            HandleTopology(node_id[n], node_ids[n], st, req)
      [] req.type = "gossip" -> HandleGossip(st, req)
      [] req.type = "gossip_ok" -> HandleGossipOk(st, req)
      [] req.type \in Unhandled -> HandleOther(st, req)

\* An envelope with src and dest the wrong way round.
EnvelopeSwapped(self, req, body) ==
    IF body.type = "none" THEN <<>>
    ELSE << Msg(req.src, self, body.type, NoId, body.in_reply_to, 0,
                body.messages) >>

\* The envelope Node::handle of the node with id self puts around a reply
\* body.
Envelope(self, req, body) ==
    IF body.type = "none" THEN <<>>
    ELSE << Msg(self, req.src, body.type, NoId, body.in_reply_to, 0,
                body.messages) >>

State(n) ==
    [messages |-> messages[n], pending_to_send |-> pending_to_send[n],
     neighbors |-> neighbors[n], last_message_id |-> last_message_id[n]]

\* The lines of ms that the harness carries to a node.
ToNodes(ms) == {ms[i] : i \in {j \in 1..Len(ms) : ms[j].dest \in Nodes}}

\* The msg_ids of the gossips among the lines ms, in order.
RECURSIVE GossipIdsOf(_)
GossipIdsOf(ms) ==
    IF ms = <<>> THEN <<>>
    ELSE (IF Head(ms).type = "gossip" THEN <<Head(ms).msg_id>> ELSE <<>>)
         \o GossipIdsOf(Tail(ms))

\* The history of gossip msg_ids h after a step that wrote the gossips ids.
Emitted(h, ids) ==
    IF ids = <<>> THEN h ELSE <<h[Len(h)]>> \o ids

----------------------------------------------------------------------------
(* The broadcast node and the broadcast cluster *)

NoStep == [node |-> "", handled |-> <<>>, written |-> <<>>]

\* NodeState::default() in every process, nothing on its way, no history.
InitState ==
    /\ messages = [n \in Nodes |-> {}]
    /\ pending_to_send = [n \in Nodes |-> {}]
    /\ last_message_id = [n \in Nodes |-> 0]
    /\ counter = [n \in Nodes |-> <<>>]
    /\ bus = [n \in Nodes |-> <<>>]
    /\ net = {}
    /\ inputs_open = TRUE
    /\ faults = 0
    /\ stale = {}
    /\ step = NoStep
    /\ gossip_ids = [n \in Nodes |-> <<0>>]
    /\ broadcasted = {}
    /\ applied = 0
    /\ last_read = [n \in Nodes |-> 0]
    /\ issued = {}
    /\ reissued = FALSE

\* One process awaits its first line; its peers are outside the model.
InitNode ==
    /\ \E self \in {NodeIds[1], NodeIds[2]} :
          status = [n \in Nodes |-> IF n = self THEN "boot" ELSE "ext"]
    /\ node_id = [n \in Nodes |-> ""]
    /\ node_ids = [n \in Nodes |-> <<>>]
    /\ gossip = [n \in Nodes |-> "none"]
    /\ stdin = [n \in Nodes |-> "none"]
    /\ neighbors = [n \in Nodes |-> <<>>]
    /\ InitState

\* One broadcast process awaiting its first line; its peers are outside the
\* model and the harness delivers whatever they may send.
InitB == workload = "broadcast" /\ InitNode

\* main of the broadcast node up to the spawn of its threads: the first line
\* is an init from a client; Node::init writes init_ok.
BInit(n) ==
    /\ workload = "broadcast"
    /\ status[n] = "boot"
    /\ \E c \in Requests :
          LET req == [src |-> c[1], dest |-> n, type |-> "init",
                      msg_id |-> c[2], node_id |-> n, node_ids |-> NodeIds]
          IN /\ node_id' = [node_id EXCEPT ![n] = req.node_id]
             /\ node_ids' = [node_ids EXCEPT ![n] = req.node_ids]
             /\ step' = [node |-> n,
                         handled |-> <<Msg(c[1], n, "init", c[2], NoId, 0, {})>>,
                         written |-> <<InitOk(req)>>]
    /\ status' = [status EXCEPT ![n] = "run"]
    /\ gossip' = [gossip EXCEPT ![n] = "run"]
    /\ stdin' = [stdin EXCEPT ![n] = "read"]
    /\ UNCHANGED <<workload, last_message_id, neighbors, bVars, gVars, uVars,
                   bus, net, inputs_open, hVars, gossip_ids>>

\* A send that puts the event at the front of the channel.
EnqueueFront(n, m, k) ==
    /\ status[n] = "run"
    /\ stdin[n] = "read"
    /\ Len(Kind(bus[n], "Reply")) < k
    /\ bus' = [bus EXCEPT ![n] = <<Reply(m)>> \o @]
    /\ step' = NoStep

\* The stdin thread reads one line m and sends Event::Reply(m), while fewer
\* than k Reply events wait in the channel.
EnqueueWithin(n, m, k) ==
    /\ status[n] = "run"
    /\ stdin[n] = "read"
    /\ Len(Kind(bus[n], "Reply")) < k
    /\ bus' = [bus EXCEPT ![n] = Append(@, Reply(m))]
    /\ step' = NoStep

\* The stdin thread reads one line m and sends Event::Reply(m).
Enqueue(n, m) == EnqueueWithin(n, m, MaxLines)

\* A client sends broadcast v to node n, v one of vs.
BStdinBroadcast(n, vs) ==
    /\ workload = "broadcast"
    /\ inputs_open
    /\ \E c \in Writers, v \in vs :
          Enqueue(n, Msg(c[1], n, "broadcast", c[2], NoId, v, {}))
    /\ UNCHANGED <<idVars, last_message_id, neighbors, bVars, gVars, uVars,
                   gossip, net, inputs_open, hVars, gossip_ids, stdin>>

\* A client sends read to node n.
BStdinRead(n) ==
    /\ workload = "broadcast"
    /\ \E c \in Requests :
          Enqueue(n, Msg(c[1], n, "read", c[2], NoId, 0, {}))
    /\ UNCHANGED <<idVars, last_message_id, neighbors, bVars, gVars, uVars,
                   gossip, net, inputs_open, hVars, gossip_ids, stdin>>

\* A client sends topology to node n (the suggested map is never read).
BStdinTopology(n) ==
    /\ workload = "broadcast"
    /\ \E c \in Writers :
          Enqueue(n, Msg(c[1], n, "topology", c[2], NoId, 0, {}))
    /\ UNCHANGED <<idVars, last_message_id, neighbors, bVars, gVars, uVars,
                   gossip, net, inputs_open, hVars, gossip_ids, stdin>>

\* The harness delivers the line m a node wrote to the node it is addressed
\* to, whose stdin thread reads it.
Deliver(n, m) ==
    /\ m \in net
    /\ m.dest = n
    /\ Enqueue(n, m)
    /\ net' = net \ {m}
    /\ UNCHANGED <<idVars, last_message_id, neighbors, bVars, gVars, uVars,
                   gossip, inputs_open, hVars, gossip_ids, stdin>>

StdinNet(n) == \E m \in net : Deliver(n, m)

\* The peer outside the model whose lines the harness delivers to node n: the
\* hub, or for the hub its first follower (Node::handle reads the src of a
\* line only to address the reply).
Peer(n) == IF n = NodeIds[1] THEN NodeIds[2] ELSE NodeIds[1]

\* The harness delivers a gossip or a gossip_ok of a peer outside the model.
BStdinPeer(n) ==
    /\ workload = "broadcast"
    /\ \E p \in Nodes, ms \in SUBSET Values :
          /\ p = Peer(n)
          /\ status[p] = "ext"
          /\ \/ \E i \in PeerMsgIds :
                   Enqueue(n, Msg(p, n, "gossip", i, NoId, 0, ms))
             \/ Enqueue(n, Msg(p, n, "gossip_ok", NoId, 1, 0, ms))
    /\ UNCHANGED <<idVars, last_message_id, neighbors, bVars, gVars, uVars,
                   gossip, net, inputs_open, hVars, gossip_ids, stdin>>

\* The gossips and gossip_oks on their way: the lines the harness has not
\* delivered and the events that carry one in the channels of the nodes in S.
RECURSIVE InBuses(_)
InBuses(S) ==
    IF S = {} THEN 0
    ELSE LET n == CHOOSE x \in S : TRUE
         IN Len(SelectSeq(bus[n],
                    LAMBDA e : e.msg.type \in {"gossip", "gossip_ok"}))
            + InBuses(S \ {n})

Traffic == Cardinality(net) + InBuses(Nodes)

\* The Push events of one tick of the broadcast gossip thread.
RECURSIVE BPushes(_, _, _)
BPushes(n, nbrs, msg_id) ==
    IF nbrs = <<>> THEN <<>>
    ELSE << Push(Msg(node_id[n], Head(nbrs), "gossip", msg_id + 1, NoId, 0,
                     pending_to_send[n])) >>
         \o BPushes(n, Tail(nbrs), msg_id + 1)

\* One iteration of the loop of the broadcast gossip thread.
BGossipTick(n) ==
    /\ workload = "broadcast"
    /\ status[n] = "run"
    /\ gossip[n] = "run"
    /\ IF Len(neighbors[n]) = 0
       THEN /\ gossip' = [gossip EXCEPT ![n] = "done"]
            /\ UNCHANGED bus
       ELSE IF pending_to_send[n] = {}
       THEN UNCHANGED <<gossip, bus>>
       ELSE /\ Len(Kind(bus[n], "Push")) < MaxBus
            /\ Traffic < MaxNet
            /\ bus' = [bus EXCEPT
                  ![n] = @ \o BPushes(n, neighbors[n], last_message_id[n])]
            /\ UNCHANGED gossip
    /\ step' = NoStep
    /\ UNCHANGED <<idVars, last_message_id, neighbors, bVars, gVars, uVars,
                   net, inputs_open, hVars, gossip_ids, stdin>>

\* One iteration of the consumer loop of main on a Reply or a Push event.
BConsume(n) ==
    /\ workload = "broadcast"
    /\ status[n] = "run"
    /\ bus[n] # <<>>
    /\ Head(bus[n]).kind \in {"Reply", "Push"}
    /\ LET evt == Head(bus[n])
           r == Handle(n, State(n), evt.msg)
           pushed == IF evt.kind = "Push" THEN <<evt.msg>> ELSE <<>>
           out == IF r.err THEN pushed
                  ELSE pushed \o Envelope(node_id[n], evt.msg, r.body)
       IN /\ bus' = [bus EXCEPT ![n] = Tail(@)]
          /\ messages' = [messages EXCEPT ![n] = r.st.messages]
          /\ pending_to_send' =
                [pending_to_send EXCEPT ![n] = r.st.pending_to_send]
          /\ neighbors' = [neighbors EXCEPT ![n] = r.st.neighbors]
          /\ last_message_id' =
                [last_message_id EXCEPT ![n] = r.st.last_message_id]
          /\ status' = [status EXCEPT ![n] = IF r.err THEN "failed" ELSE @]
          /\ net' = net \cup {m \in ToNodes(out) : status[m.dest] # "ext"}
          /\ step' = [node |-> n, handled |-> <<evt.msg>>, written |-> out]
          /\ gossip_ids' = [gossip_ids EXCEPT
                ![n] = Emitted(@, GossipIdsOf(out))]
          /\ broadcasted' =
                IF evt.msg.type = "broadcast"
                THEN broadcasted \cup {evt.msg.message} ELSE broadcasted
    /\ UNCHANGED <<workload, node_id, node_ids, gVars, uVars, gossip,
                   inputs_open, hVars, stdin>>

\* The clients stop sending broadcast and add requests.
CloseInputs ==
    /\ inputs_open
    /\ inputs_open' = FALSE
    /\ step' = NoStep
    /\ UNCHANGED <<idVars, last_message_id, neighbors, bVars, gVars, uVars,
                   gossip, bus, net, hVars, gossip_ids, stdin>>

NextB ==
    \/ \E n \in Nodes : BInit(n)
    \/ \E n \in Nodes : BStdinBroadcast(n, Values)
    \/ \E n \in Nodes : BStdinRead(n)
    \/ \E n \in Nodes : BStdinTopology(n)
    \/ \E n \in Nodes : StdinNet(n)
    \/ \E n \in Nodes : BStdinPeer(n)
    \/ \E n \in Nodes : BGossipTick(n)
    \/ \E n \in Nodes : BConsume(n)

SpecB == InitB /\ [][NextB]_vars

----------------------------------------------------------------------------
(* The broadcast cluster: every node of NodeIds is a process of the model,  *)
(* has been initialised with NodeIds, has handled a topology message and    *)
(* its gossip thread is running.                                            *)

\* The processes of ids run the binary w, have handled an init that named ids
\* and have the neighbors topology gives them; every other process is outside
\* the cluster and the harness never delivers a line of it.
InitCluster(w, ids, topology) ==
    /\ workload = w
    /\ status = [n \in Nodes |-> IF n \in Range(ids) THEN "run" ELSE "ext"]
    /\ node_id = [n \in Nodes |-> IF n \in Range(ids) THEN n ELSE ""]
    /\ node_ids = [n \in Nodes |-> IF n \in Range(ids) THEN ids ELSE <<>>]
    /\ gossip = [n \in Nodes |-> IF n \in Range(ids) THEN "run" ELSE "none"]
    /\ stdin = [n \in Nodes |-> IF n \in Range(ids) THEN "read" ELSE "none"]
    /\ neighbors =
          [n \in Nodes |-> IF n \in Range(ids) THEN topology[n] ELSE <<>>]
    /\ InitState

InitBC == InitCluster("broadcast", NodeIds, StarTopology(NodeIds))

NextBC ==
    \/ \E n \in Nodes : BStdinBroadcast(n, ClusterValues)
    \/ \E n \in Nodes : StdinNet(n)
    \/ \E n \in Nodes : BGossipTick(n)
    \/ \E n \in Nodes : BConsume(n)
    \/ CloseInputs

SpecBC == InitBC /\ [][NextBC]_vars

\* The gossip thread wakes every 500 ms, the main thread consumes every event
\* of its channel, the stdin thread reads every line the harness delivers.
\* The bounds of the model disable a tick now and then, so the fair schedule
\* of the ticks is the strongly fair one.
FairBC ==
    /\ \A n \in Nodes : SF_vars(BGossipTick(n))
    /\ \A n \in Nodes : WF_vars(BConsume(n))
    /\ \A n \in Nodes : WF_vars(StdinNet(n))

FairSpecBC == SpecBC /\ FairBC

\* Every node of the cluster holds every value a client has broadcast.
Converged == \A n \in Nodes : messages[n] = broadcasted

\* Nothing is on its way: every line written has been delivered and handled.
Quiet == net = {} /\ \A n \in Nodes : bus[n] = <<>>

\* C1: in a cluster that loses nothing and keeps delivering (again and again
\* no line is on its way), once the clients have stopped broadcasting every
\* node's messages eventually equals, for good, the set of all values ever
\* broadcast.
C1_BroadcastConvergence ==
    []<>Quiet => [](~inputs_open => <>[]Converged)

----------------------------------------------------------------------------
(* The broadcast cluster on a harness that loses lines *)

\* Lines the harness of the model loses or repeats, at most.
MaxFaults == 1

\* The harness loses the line m a node wrote to a node.
Drop(m) ==
    /\ m \in net
    /\ faults < MaxFaults
    /\ net' = net \ {m}
    /\ faults' = faults + 1
    /\ step' = NoStep
    /\ UNCHANGED <<idVars, last_message_id, neighbors, bVars, gVars, uVars,
                   gossip, bus, inputs_open, stale, gossip_ids, stdin>>

NextBCL ==
    \/ NextBC
    \/ \E m \in net : Drop(m)

SpecBCL == InitBC /\ [][NextBCL]_vars

\* The harness loses finitely many lines, so every link delivers again and
\* again; the threads run as in FairBC.
FairSpecBCL == SpecBCL /\ FairBC

\* C2: on a harness that has lost a gossip or a gossip_ok and goes on
\* delivering, once the clients have stopped broadcasting every node
\* eventually holds every value ever broadcast.
C2_ConvergenceUnderLoss ==
    []<>Quiet => ((~inputs_open /\ faults > 0) ~> Converged)

----------------------------------------------------------------------------
(* The broadcast node on lines it does not expect and at the end of its     *)
(* input                                                                    *)

\* A line that does not parse as a Message.
Malformed == Msg("", "", "malformed", NoId, NoId, 0, {})

\* First lines that are not an init: a request of a client, or a line that
\* does not parse.
FirstLines(n) ==
    {Msg(c[1], n, t, c[2], NoId, 0, {}) :
        c \in Writers, t \in {"broadcast", "read", "topology"}}
    \cup {Malformed}

\* main of the broadcast node on a first line that is not an init: Node::init
\* returns Err before it writes, and main returns it.
BInitFail(n) ==
    /\ workload = "broadcast"
    /\ status[n] = "boot"
    /\ \E line \in FirstLines(n) :
          step' = [node |-> n, handled |-> <<line>>, written |-> <<>>]
    /\ status' = [status EXCEPT ![n] = "failed"]
    /\ UNCHANGED <<workload, node_id, node_ids, last_message_id, neighbors,
                   bVars, gVars, uVars, gossip, stdin, bus, net, inputs_open,
                   hVars, gossip_ids>>

\* A client sends node n a well-formed message of a type Node::handle has no
\* arm for (an init after the first line among them).
BStdinUnhandled(n) ==
    /\ workload = "broadcast"
    /\ \E c \in Writers, t \in Unhandled :
          Enqueue(n, Msg(c[1], n, t, IF t = "init" THEN c[2] ELSE NoId,
                         IF t = "init" THEN NoId ELSE 1, 0, {}))
    /\ UNCHANGED <<idVars, last_message_id, neighbors, bVars, gVars, uVars,
                   gossip, stdin, net, inputs_open, hVars, gossip_ids>>

\* The stdin thread reads a line that does not parse: serde_json::from_str
\* fails, the closure returns the Err and the thread ends; nothing is sent.
BStdinMalformed(n) ==
    /\ workload = "broadcast"
    /\ status[n] = "run"
    /\ stdin[n] = "read"
    /\ stdin' = [stdin EXCEPT ![n] = "error"]
    /\ step' = NoStep
    /\ UNCHANGED <<idVars, last_message_id, neighbors, bVars, gVars, uVars,
                   gossip, bus, net, inputs_open, hVars, gossip_ids>>

\* The stdin thread reaches the end of the input: it sends Event::Shutdown
\* and ends.
BStdinEof(n) ==
    /\ workload = "broadcast"
    /\ status[n] = "run"
    /\ stdin[n] = "read"
    /\ stdin' = [stdin EXCEPT ![n] = "eof"]
    /\ bus' = [bus EXCEPT ![n] = Append(@, Shutdown)]
    /\ step' = NoStep
    /\ UNCHANGED <<idVars, last_message_id, neighbors, bVars, gVars, uVars,
                   gossip, net, inputs_open, hVars, gossip_ids>>

\* An Event::Shutdown handled by a loop that does not break on it.
BExitIgnored(n) ==
    /\ workload = "broadcast"
    /\ status[n] = "run"
    /\ bus[n] # <<>>
    /\ Head(bus[n]).kind = "Shutdown"
    /\ bus' = [bus EXCEPT ![n] = Tail(@)]
    /\ step' = [node |-> n, handled |-> <<>>, written |-> <<>>]
    /\ UNCHANGED <<idVars, last_message_id, neighbors, bVars, gVars, uVars,
                   gossip, stdin, net, inputs_open, hVars, gossip_ids>>

\* One iteration of the consumer loop of main on Event::Shutdown: the loop
\* breaks, main returns Ok and the process ends with its threads.
BExit(n) ==
    /\ workload = "broadcast"
    /\ status[n] = "run"
    /\ bus[n] # <<>>
    /\ Head(bus[n]).kind = "Shutdown"
    /\ bus' = [bus EXCEPT ![n] = Tail(@)]
    /\ status' = [status EXCEPT ![n] = "exited"]
    /\ step' = [node |-> n, handled |-> <<>>, written |-> <<>>]
    /\ UNCHANGED <<workload, node_id, node_ids, last_message_id, neighbors,
                   bVars, gVars, uVars, gossip, stdin, net, inputs_open,
                   hVars, gossip_ids>>

NextBX ==
    \/ NextB
    \/ \E n \in Nodes : BInitFail(n)
    \/ \E n \in Nodes : BStdinUnhandled(n)
    \/ \E n \in Nodes : BStdinMalformed(n)
    \/ \E n \in Nodes : BStdinEof(n)
    \/ \E n \in Nodes : BExit(n)

SpecBX == InitB /\ [][NextBX]_vars

\* C14: a broadcast node accepts init only as its first line.  A first line
\* that is not an init ends the process with a failure and without output;
\* an init handled later ends the process with a failure, without an init_ok
\* and with node_id and node_ids as they were; a process that has failed
\* handles and writes nothing more.
C14_InitDiscipline ==
    [][\A n \in Nodes :
          /\ status[n] = "failed" => status'[n] = "failed" /\ step'.node # n
          /\ step'.node = n /\ step'.handled # <<>> =>
                LET req == step'.handled[1]
                IN /\ status[n] = "boot" /\ req.type # "init" =>
                         /\ status'[n] = "failed"
                         /\ step'.written = <<>>
                   /\ status[n] = "boot" /\ req.type = "init" =>
                         /\ status'[n] = "run"
                         /\ Len(step'.written) = 1
                         /\ step'.written[1].type = "init_ok"
                   /\ status[n] = "run" /\ req.type = "init" =>
                         /\ status'[n] = "failed"
                         /\ step'.written = <<>>
                         /\ node_id'[n] = node_id[n]
                         /\ node_ids'[n] = node_ids[n]]_vars

\* A broadcast node that had handled its init and a broadcast has failed on
\* a second init.
C14_Witness ==
    \E n \in Nodes :
        /\ workload = "broadcast"
        /\ status[n] = "failed"
        /\ node_id[n] = n
        /\ messages[n] # {}
        /\ step.node = n
        /\ step.handled # <<>>
        /\ step.handled[1].type = "init"
        /\ step.written = <<>>

\* C15: once a line after the init has failed to parse, the broadcast node
\* handles no further event and writes no further line (its main thread
\* takes no step).
C15_MalformedInputFatal ==
    [][\A n \in Nodes :
          workload = "broadcast" /\ stdin[n] = "error" =>
              step'.node # n]_vars

\* C16: a running broadcast node that handles a well-formed message of a
\* type it has no arm for (init_ok, broadcast_ok, read_ok, topology_ok) writes
\* no reply, leaves its state as it is and keeps running.
C16_UnhandledDropped ==
    [][\A n \in Nodes :
          /\ workload = "broadcast"
          /\ status[n] = "run"
          /\ step'.node = n
          /\ step'.handled # <<>>
          /\ step'.handled[1].type \in Unhandled \ {"init"}
          => /\ step'.written = <<>>
             /\ messages'[n] = messages[n]
             /\ pending_to_send'[n] = pending_to_send[n]
             /\ neighbors'[n] = neighbors[n]
             /\ last_message_id'[n] = last_message_id[n]
             /\ status'[n] = "run"]_vars

----------------------------------------------------------------------------
(* The broadcast node on well-formed input that ends *)

NextBS ==
    \/ NextB
    \/ \E n \in Nodes : BStdinEof(n)
    \/ \E n \in Nodes : BExit(n)

SpecBS == InitB /\ [][NextBS]_vars

\* The main thread blocks in rx.recv() only while its channel is empty.
FairBS == \A n \in Nodes : WF_vars(BConsume(n)) /\ WF_vars(BExit(n))

FairSpecBS == SpecBS /\ FairBS

\* The channel of node n holds a Shutdown exactly when the stdin thread of
\* the running node has reached the end of the input, one only, and no Reply
\* comes after it.
OrderlyBus(n) ==
    LET b == bus[n]
        shutdowns == Len(Kind(b, "Shutdown"))
    IN /\ shutdowns <= 1
       /\ stdin[n] # "eof" => shutdowns = 0
       /\ stdin[n] = "eof" /\ status[n] = "run" => shutdowns = 1
       /\ \A i, j \in 1..Len(b) :
             b[i].kind = "Shutdown" /\ b[j].kind = "Reply" => j < i

\* C17: when the input of a broadcast node ends after well-formed messages,
\* the stdin thread has sent exactly one Shutdown, after the Reply of every
\* line; the consumer leaves its loop only on that Shutdown, with every Reply
\* handled, writes nothing then and nothing later; and a node whose input
\* has ended does terminate.
C17_CleanShutdown ==
    /\ [](\A n \in Nodes : workload = "broadcast" => OrderlyBus(n))
    /\ [][\A n \in Nodes :
             /\ status[n] = "run" /\ status'[n] # "run" =>
                   /\ bus[n] # <<>>
                   /\ Head(bus[n]).kind = "Shutdown"
                   /\ status'[n] = "exited"
             /\ /\ status[n] = "run"
                /\ step'.node = n
                /\ Head(bus[n]).kind = "Shutdown"
                => /\ status'[n] = "exited"
                   /\ step'.written = <<>>
                   /\ Kind(bus'[n], "Reply") = <<>>
             /\ status[n] = "exited" =>
                   /\ status'[n] = "exited"
                   /\ step'.node # n]_vars
    /\ \A n \in Nodes : stdin[n] = "eof" ~> status[n] = "exited"

\* A broadcast node has terminated on the end of its input after it handled
\* a broadcast and a topology, and with a Push of its gossip thread left in
\* its channel.
C17_Witness ==
    \E n \in Nodes :
        /\ workload = "broadcast"
        /\ status[n] = "exited"
        /\ stdin[n] = "eof"
        /\ step.node = n
        /\ messages[n] # {}
        /\ neighbors[n] # <<>>
        /\ bus[n] # <<>>

----------------------------------------------------------------------------
(* Properties of the broadcast node *)

\* The sequence of integers s is strictly increasing.
Increasing(s) == \A i \in 1..(Len(s) - 1) : s[i] < s[i + 1]

\* C6: the msg_id values of the gossips a broadcast node writes are strictly
\* increasing in the order it writes them.
C6_BroadcastGossipIdsIncrease ==
    \A n \in Nodes : workload = "broadcast" => Increasing(gossip_ids[n])

\* C10: pending_to_send is a subset of messages in every reachable state of a
\* broadcast node.
C10_PendingSubsetOfMessages ==
    \A n \in Nodes :
        workload = "broadcast" => pending_to_send[n] \subseteq messages[n]

\* A broadcast node whose last step handled a gossip holds a pending value
\* and a value that is not pending.
C10_Witness ==
    \E n \in Nodes :
        /\ workload = "broadcast"
        /\ step.node = n
        /\ step.handled # <<>>
        /\ step.handled[1].type = "gossip"
        /\ pending_to_send[n] # {}
        /\ pending_to_send[n] # messages[n]

\* The broadcasts and the gossips node n may be handed: a broadcast of a
\* client, a gossip of its peer.
Repeatable(n) ==
    {Msg(c[1], n, "broadcast", c[2], NoId, v, {}) :
        c \in Writers, v \in Values}
    \cup {Msg(Peer(n), n, "gossip", i, NoId, 0, ms) :
            i \in PeerMsgIds, ms \in SUBSET Values}

\* C13: in every reachable state of a broadcast node, handling a broadcast or
\* a gossip m twice in a row leaves messages, pending_to_send, neighbors and
\* last_message_id as handling m once leaves them.
C13_BroadcastIdempotence ==
    \A n \in Nodes :
        workload = "broadcast" /\ status[n] = "run" =>
            \A m \in Repeatable(n) :
                LET once == Handle(n, State(n), m).st
                IN Handle(n, once, m).st = once

\* A broadcast node has just handled a gossip that brought it an integer and
\* made another one pending, and handling the gossip again would leave its
\* state as it is.
C13_Witness ==
    \E n \in Nodes :
        /\ workload = "broadcast"
        /\ status[n] = "run"
        /\ step.node = n
        /\ step.handled # <<>>
        /\ step.handled[1] \in Repeatable(n)
        /\ step.handled[1].type = "gossip"
        /\ step.handled[1].messages # {}
        /\ pending_to_send[n] \ step.handled[1].messages # {}
        /\ Handle(n, State(n), step.handled[1]).st = State(n)

\* The integers the message handled in step s carries, when the message is
\* of one of the types: the message of a broadcast, the messages of a gossip
\* or of a gossip_ok.
Carried(s, types) ==
    IF s.handled = <<>> THEN {}
    ELSE LET req == s.handled[1]
         IN IF req.type \notin types THEN {}
            ELSE IF req.type = "broadcast" THEN {req.message}
            ELSE req.messages

\* Every integer a step inserts into messages of a broadcast node is carried
\* by a message of one of the types that the node handles in that step.
InsertedFrom(types) ==
    \A n \in Nodes :
        workload = "broadcast" =>
            messages'[n] \subseteq
                messages[n] \cup (IF step'.node = n
                                  THEN Carried(step', types) ELSE {})

\* C11 as stated: every integer in messages of a broadcast node was delivered
\* to the node by a client broadcast or was in the payload of a gossip the
\* node received (messages starts empty, so: every step that inserts an
\* integer handles a broadcast or a gossip that carries it).
C11_ProvenanceBroadcastOrGossip ==
    [][InsertedFrom({"broadcast", "gossip"})]_vars

\* C11 amended: every integer in messages of a broadcast node was delivered
\* to the node by a client broadcast or was in the payload of a gossip or of
\* a gossip_ok the node received.
C11_Provenance ==
    [][InsertedFrom({"broadcast", "gossip", "gossip_ok"})]_vars

\* A broadcast node whose last step handled a gossip_ok holds an integer of
\* its payload that no client has broadcast to it.
C11_Witness ==
    \E n \in Nodes :
        /\ workload = "broadcast"
        /\ step.node = n
        /\ step.handled # <<>>
        /\ step.handled[1].type = "gossip_ok"
        /\ \E v \in step.handled[1].messages :
              v \in messages[n] /\ v \notin broadcasted

\* C18: when a broadcast node with messages = M and pending_to_send = P
\* handles a gossip that carries the set R, afterwards messages = M \cup R
\* and pending_to_send = P \cup (R \ M): the integers newly learned are made
\* pending.
C18_GossipTransition ==
    [][\A n \in Nodes :
          /\ workload = "broadcast"
          /\ status[n] = "run"
          /\ step'.node = n
          /\ step'.handled # <<>>
          /\ step'.handled[1].type = "gossip"
          => LET M == messages[n]
                 P == pending_to_send[n]
                 R == step'.handled[1].messages
             IN /\ messages'[n] = M \cup R
                /\ pending_to_send'[n] = P \cup (R \ M)]_vars

\* C19: after a tick of the broadcast gossip thread that found
\* pending_to_send non-empty and sent its Push events, pending_to_send is
\* empty.
C19_PendingCleared ==
    [][\A n \in Nodes :
          /\ workload = "broadcast"
          /\ pending_to_send[n] # {}
          /\ Len(Kind(bus'[n], "Push")) > Len(Kind(bus[n], "Push"))
          => pending_to_send'[n] = {}]_vars

\* The gossip thread wakes every 500 ms, the main thread takes every event
\* of its channel, the stdin thread reads every line the harness delivers.
\* The bounds of the model disable a tick and a delivery now and then, so the
\* fair schedule of both is the strongly fair one.
FairB ==
    /\ \A n \in Nodes : SF_vars(BGossipTick(n))
    /\ \A n \in Nodes : WF_vars(BConsume(n))
    /\ \A n \in Nodes : SF_vars(StdinNet(n))

FairSpecB == SpecB /\ FairB

\* The channel of node n holds a gossip of its gossip thread for each of its
\* neighbors.
Pushed(n) ==
    \A d \in Range(neighbors[n]) :
        \E i \in 1..Len(bus[n]) :
            /\ bus[n][i].kind = "Push"
            /\ bus[n][i].msg.type = "gossip"
            /\ bus[n][i].msg.dest = d

\* C20: whenever a running broadcast node has neighbors (a topology message
\* has been handled, before or after the first tick of the gossip thread) and
\* pending_to_send is not empty, a gossip is eventually pushed to each
\* neighbor: a tick that saw no neighbors has not stopped the gossip thread.
C20_SchedulerSurvives ==
    \A n \in Nodes :
        [](/\ workload = "broadcast"
           /\ status[n] = "run"
           /\ neighbors[n] # <<>>
           /\ pending_to_send[n] # {}
           => <>Pushed(n))

\* C23: when a broadcast node with messages = M and pending_to_send = P
\* handles a gossip_ok that carries the set R, afterwards pending_to_send =
\* P \cup (M \ R) and messages = M \cup R, and it writes no reply.
C23_GossipOkTransition ==
    [][\A n \in Nodes :
          /\ workload = "broadcast"
          /\ status[n] = "run"
          /\ step'.node = n
          /\ step'.handled # <<>>
          /\ step'.handled[1].type = "gossip_ok"
          => LET M == messages[n]
                 P == pending_to_send[n]
                 R == step'.handled[1].messages
             IN /\ messages'[n] = M \cup R
                /\ pending_to_send'[n] = P \cup (M \ R)
                /\ step'.written = <<>>]_vars

\* C31: no step, of a handler or of the gossip thread, removes an element
\* from the messages of a broadcast node; a step that writes broadcast_ok
\* for v leaves v in messages, and a read_ok carries all of messages: so a
\* value acknowledged or read once is in every later read_ok of the node.
C31_MessagesGrowOnly ==
    [][\A n \in Nodes :
          workload = "broadcast" /\ status[n] = "run"
          => /\ messages[n] \subseteq messages'[n]
             /\ /\ step'.node = n
                /\ step'.handled # <<>>
                /\ step'.written # <<>>
                => LET req == step'.handled[1]
                       reply == step'.written[Len(step'.written)]
                   IN /\ reply.type = "broadcast_ok"
                         => req.message \in messages'[n]
                      /\ reply.type = "read_ok"
                         => /\ reply.messages = messages'[n]
                            /\ messages[n] \subseteq reply.messages]_vars

\* A broadcast node has just written a read_ok that carries a value a
\* client broadcast to it and a value a gossip brought.
C31_Witness ==
    \E n \in Nodes :
        /\ workload = "broadcast"
        /\ step.node = n
        /\ step.handled # <<>>
        /\ step.handled[1].type = "read"
        /\ step.written # <<>>
        /\ step.written[1].type = "read_ok"
        /\ \E v \in step.written[1].messages : v \in broadcasted
        /\ \E v \in step.written[1].messages : v \notin broadcasted

\* A broadcast node has just handled a gossip_ok that lacked an integer the
\* node holds, now pending, and brought one that no client broadcast to the
\* node, now in messages and not pending.
C23_Witness ==
    \E n \in Nodes :
        /\ workload = "broadcast"
        /\ step.node = n
        /\ step.handled # <<>>
        /\ step.handled[1].type = "gossip_ok"
        /\ step.written = <<>>
        /\ \E v \in messages[n] \ step.handled[1].messages :
              v \in pending_to_send[n]
        /\ \E v \in step.handled[1].messages :
              /\ v \in messages[n]
              /\ v \notin broadcasted
              /\ v \notin pending_to_send[n]

----------------------------------------------------------------------------
(* The broadcast node and the map a topology message suggests *)

\* The maps the topology messages of the clients suggest: nobody has a
\* neighbor, everybody has the last node as its neighbor, everybody has
\* everybody else.
SuggestedMaps ==
    { [k \in Nodes |-> <<>>],
      [k \in Nodes |-> <<NodeIds[Len(NodeIds)]>>],
      [k \in Nodes |-> SelectSeq(NodeIds, LAMBDA x : x # k)] }

\* A topology message with the map it suggests.
TopologyMsg(src, dest, msg_id, topology) ==
    [src |-> src, dest |-> dest, type |-> "topology", msg_id |-> msg_id,
     in_reply_to |-> NoId, message |-> 0, messages |-> {},
     topology |-> topology]

\* A client sends node n a topology message that suggests a map.
BStdinSuggested(n) ==
    /\ workload = "broadcast"
    /\ \E c \in Requests, t \in SuggestedMaps :
          Enqueue(n, TopologyMsg(c[1], n, c[2], t))
    /\ UNCHANGED <<idVars, last_message_id, neighbors, bVars, gVars, uVars,
                   gossip, stdin, net, inputs_open, hVars, gossip_ids>>

NextBT ==
    \/ \E n \in Nodes : BInit(n)
    \/ \E n \in Nodes : BStdinBroadcast(n, Values)
    \/ \E n \in Nodes : BStdinRead(n)
    \/ \E n \in Nodes : BStdinSuggested(n)
    \/ \E n \in Nodes : StdinNet(n)
    \/ \E n \in Nodes : BStdinPeer(n)
    \/ \E n \in Nodes : BGossipTick(n)
    \/ \E n \in Nodes : BConsume(n)

SpecBT == InitB /\ [][NextBT]_vars

\* The neighbors of the node self in the star over ids: every other id, in
\* order, for the first id; the first id for every other node.
StarNeighbors(self, ids) ==
    IF self = ids[1]
    THEN SelectSeq(ids, LAMBDA x : x # self)
    ELSE <<ids[1]>>

\* C24: a broadcast node whose id is in node_ids answers every topology
\* message with one topology_ok and afterwards has the neighbors of the star
\* over node_ids, whatever map the message suggests: any other suggested map
\* would have left it in the same state.
C24_TopologyHandling ==
    [][\A n \in Nodes :
          /\ workload = "broadcast"
          /\ status[n] = "run"
          /\ step'.node = n
          /\ step'.handled # <<>>
          /\ step'.handled[1].type = "topology"
          => LET req == step'.handled[1]
             IN /\ status'[n] = "run"
                /\ Len(step'.written) = 1
                /\ step'.written[1].type = "topology_ok"
                /\ step'.written[1].in_reply_to = req.msg_id
                /\ step'.written[1].dest = req.src
                /\ neighbors'[n] = StarNeighbors(node_id[n], node_ids[n])
                /\ messages'[n] = messages[n]
                /\ pending_to_send'[n] = pending_to_send[n]
                /\ \A t \in SuggestedMaps :
                      Handle(n, State(n),
                             TopologyMsg(req.src, n, req.msg_id, t)).st
                      = State(n)']_vars

\* A broadcast node that is not the hub has just handled a topology message
\* that suggested two neighbors, and has the hub as its only neighbor.
C24_Witness ==
    \E n \in Nodes :
        /\ workload = "broadcast"
        /\ step.node = n
        /\ step.handled # <<>>
        /\ step.handled[1].type = "topology"
        /\ Len(step.handled[1].topology[n]) = 2
        /\ neighbors[n] = <<NodeIds[1]>>
        /\ n # NodeIds[1]

----------------------------------------------------------------------------
(* The broadcast node with the tick of its gossip thread taken apart: the   *)
(* thread locks the state, sends its Push events and drops the guard at the *)
(* end of the iteration; Node::handle locks the state in every arm.         *)

\* The gossip thread of node n holds the state mutex.
GossipHoldsLock(n) == gossip[n] \in {"locked", "sent"}

\* A channel of capacity 1 (sync_channel(1)): a send waits while it holds
\* an event.
SyncChannelFull(b) == Len(b) >= 1

\* std::sync::mpsc::channel has no capacity: a send never waits for room in
\* the channel b.
ChannelFull(b) == FALSE

\* The gossip thread wakes and locks the state; without neighbors it breaks,
\* without pending integers it continues, and either way the guard is
\* dropped.
BTickLock(n) ==
    /\ workload = "broadcast"
    /\ status[n] = "run"
    /\ gossip[n] = "run"
    /\ IF Len(neighbors[n]) = 0
       THEN gossip' = [gossip EXCEPT ![n] = "done"]
       ELSE IF pending_to_send[n] = {}
       THEN UNCHANGED gossip
       ELSE /\ Len(Kind(bus[n], "Push")) < MaxBus
            /\ Traffic < MaxNet
            /\ gossip' = [gossip EXCEPT ![n] = "locked"]
    /\ step' = NoStep
    /\ UNCHANGED <<idVars, last_message_id, neighbors, bVars, gVars, uVars,
                   stdin, bus, net, inputs_open, hVars, gossip_ids>>

\* The for loop of the tick: one gossip_tx.send per neighbor, state_guard
\* still in scope.
BTickSend(n) ==
    /\ workload = "broadcast"
    /\ status[n] = "run"
    /\ gossip[n] = "locked"
    /\ ~ChannelFull(bus[n])
    /\ bus' = [bus EXCEPT
          ![n] = @ \o BPushes(n, neighbors[n], last_message_id[n])]
    /\ gossip' = [gossip EXCEPT ![n] = "sent"]
    /\ step' = NoStep
    /\ UNCHANGED <<idVars, last_message_id, neighbors, bVars, gVars, uVars,
                   stdin, net, inputs_open, hVars, gossip_ids>>

\* The end of the iteration: state_guard goes out of scope.
BTickUnlock(n) ==
    /\ workload = "broadcast"
    /\ status[n] = "run"
    /\ gossip[n] = "sent"
    /\ gossip' = [gossip EXCEPT ![n] = "run"]
    /\ step' = NoStep
    /\ UNCHANGED <<idVars, last_message_id, neighbors, bVars, gVars, uVars,
                   stdin, bus, net, inputs_open, hVars, gossip_ids>>

\* One iteration of the consumer loop; Node::handle waits for the mutex.
BConsumeLocking(n) ==
    /\ ~GossipHoldsLock(n)
    /\ BConsume(n)

NextBM ==
    \/ \E n \in Nodes : BInit(n)
    \/ \E n \in Nodes : BStdinBroadcast(n, Values)
    \/ \E n \in Nodes : BStdinRead(n)
    \/ \E n \in Nodes : BStdinTopology(n)
    \/ \E n \in Nodes : StdinNet(n)
    \/ \E n \in Nodes : BStdinPeer(n)
    \/ \E n \in Nodes : BTickLock(n)
    \/ \E n \in Nodes : BTickSend(n)
    \/ \E n \in Nodes : BTickUnlock(n)
    \/ \E n \in Nodes : BConsumeLocking(n)

SpecBM == InitB /\ [][NextBM]_vars

\* C21: the gossip thread of a broadcast node has released the state mutex
\* before it sends a Push event: in no step that puts a Push in the channel
\* does the thread hold the mutex.
C21_NoLockAcrossSend ==
    [][\A n \in Nodes :
          Len(Kind(bus'[n], "Push")) > Len(Kind(bus[n], "Push")) =>
              ~GossipHoldsLock(n)]_vars

----------------------------------------------------------------------------
(* The broadcast node with lines that arrive faster than main handles them  *)

\* Reply events (lines read, not yet handled) that wait in the channel of
\* this node, at most.
MaxBurst == 2

\* The stdin thread reads the broadcast or the read of a client while other
\* lines still wait in the channel.
BStdinBurst(n) ==
    /\ workload = "broadcast"
    /\ \/ \E c \in Writers, v \in Values :
             EnqueueWithin(n, Msg(c[1], n, "broadcast", c[2], NoId, v, {}),
                           MaxBurst)
       \/ \E c \in Requests :
             EnqueueWithin(n, Msg(c[1], n, "read", c[2], NoId, 0, {}),
                           MaxBurst)
    /\ UNCHANGED <<idVars, last_message_id, neighbors, bVars, gVars, uVars,
                   gossip, stdin, net, inputs_open, hVars, gossip_ids>>

NextBQ ==
    \/ \E n \in Nodes : BInit(n)
    \/ \E n \in Nodes : BStdinBurst(n)
    \/ \E n \in Nodes : BStdinTopology(n)
    \/ \E n \in Nodes : StdinNet(n)
    \/ \E n \in Nodes : BGossipTick(n)
    \/ \E n \in Nodes : BConsume(n)

SpecBQ == InitB /\ [][NextBQ]_vars

\* The sequence a is the beginning of the sequence b.
IsPrefix(a, b) == Len(a) <= Len(b) /\ SubSeq(b, 1, Len(a)) = a

\* C22: the consumer of a broadcast node handles the events in the order in
\* which they were put in the channel: a step of the main thread takes the
\* oldest event and handles its message, every other step leaves the events
\* that wait in their order and only adds behind them; for a Push the pushed
\* message is the first line written, before the reply of its handler; for a
\* Reply nothing but the reply to its message is written.
C22_FifoProcessing ==
    [][\A n \in Nodes :
          workload = "broadcast" /\ status[n] = "run" =>
              IF step'.node = n
              THEN /\ bus[n] # <<>>
                   /\ bus'[n] = Tail(bus[n])
                   /\ step'.handled = <<Head(bus[n]).msg>>
                   /\ Head(bus[n]).kind = "Push" =>
                         /\ Len(step'.written) >= 1
                         /\ step'.written[1] = Head(bus[n]).msg
                         /\ \A i \in 2..Len(step'.written) :
                               step'.written[i].dest = Head(bus[n]).msg.src
                   /\ Head(bus[n]).kind = "Reply" =>
                         \A i \in 1..Len(step'.written) :
                            step'.written[i].dest = Head(bus[n]).msg.src
              ELSE IsPrefix(bus[n], bus'[n])]_vars

\* A broadcast node has just handled the broadcast of one client while the
\* read of another client, sent after it, and a Push of the gossip thread,
\* sent after both, wait in the channel in that order.
C22_Witness ==
    \E n \in Nodes :
        /\ workload = "broadcast"
        /\ step.node = n
        /\ step.handled # <<>>
        /\ step.handled[1].type = "broadcast"
        /\ Len(bus[n]) >= 2
        /\ bus[n][1].kind = "Reply"
        /\ bus[n][1].msg.type = "read"
        /\ bus[n][1].msg.src # step.handled[1].src
        /\ bus[n][2].kind = "Push"

----------------------------------------------------------------------------
(* The g-counter node *)

\* The largest last_message_id the model lets a g-counter node reach: an add
\* is sent and a tick is taken only while the node stays within it.
MaxMsgId == 3

\* The gossip thread of a g-counter node of the model takes a tick only while
\* fewer than MaxFlight gossips and gossip_oks are on their way.
MaxFlight == 1

\* The clients of the model add MaxSum in total at most.
MaxSum == 2

\* The deltas the clients add.
Deltas == {0, 1}

GMsg(src, dest, type, msg_id, in_reply_to, delta, value, data) ==
    [src |-> src, dest |-> dest, type |-> type, msg_id |-> msg_id,
     in_reply_to |-> in_reply_to, delta |-> delta, value |-> value,
     counter |-> data]

CounterValue(msg_id, value) == [msg_id |-> msg_id, value |-> value]

\* An add that stores the delta in place of the sum.
CounterAddOverwrite(data, id, new_counter) ==
    IF id \in DOMAIN data
    THEN [data EXCEPT ![id] = new_counter]
    ELSE data @@ (id :> new_counter)

\* An add that sums the value and keeps the version of the entry it holds.
CounterAddKeepVersion(data, id, new_counter) ==
    IF id \in DOMAIN data
    THEN [data EXCEPT ![id].value = @ + new_counter.value]
    ELSE data @@ (id :> new_counter)

\* Counter::add on the map data.
CounterAdd(data, id, new_counter) ==
    IF id \in DOMAIN data
    THEN [data EXCEPT ![id] = CounterValue(new_counter.msg_id,
                                           @.value + new_counter.value)]
    ELSE data @@ (id :> new_counter)

\* A merge that takes the incoming entry whatever its version.
AnyVersion(old_msg_id, new_msg_id) == TRUE

\* A comparison the wrong way round: the older entry replaces the newer.
StaleWins(old_msg_id, new_msg_id) == old_msg_id > new_msg_id

\* The comparison of the versions in Counter::merge.
Newer(old_msg_id, new_msg_id) == old_msg_id < new_msg_id

\* A merge that updates the entries it holds and inserts none.
MergeKnownOnly(data, id, new_counter) ==
    IF id \in DOMAIN data /\ Newer(data[id].msg_id, new_counter.msg_id)
    THEN [data EXCEPT ![id] = new_counter]
    ELSE data

\* A merge that adds the value of a newer entry to the value it holds.
MergeSumming(data, id, new_counter) ==
    IF id \in DOMAIN data
    THEN IF Newer(data[id].msg_id, new_counter.msg_id)
         THEN [data EXCEPT ![id] =
                  CounterValue(new_counter.msg_id, @.value + new_counter.value)]
         ELSE data
    ELSE data @@ (id :> new_counter)

\* Counter::merge on the map data.
CounterMerge(data, id, new_counter) ==
    IF id \in DOMAIN data
    THEN IF Newer(data[id].msg_id, new_counter.msg_id)
         THEN [data EXCEPT ![id] = new_counter]
         ELSE data
    ELSE data @@ (id :> new_counter)

\* Counter::sum.
RECURSIVE SumOver(_, _)
SumOver(data, ids) ==
    IF ids = {} THEN 0
    ELSE LET id == CHOOSE x \in ids : TRUE
         IN data[id].value + SumOver(data, ids \ {id})

CounterSum(data) == SumOver(data, DOMAIN data)

\* The loop of the Gossip and GossipOk arms: merge every entry of the
\* incoming map under one of the keys ids.
RECURSIVE MergeEach(_, _, _)
MergeEach(data, incoming, ids) ==
    IF ids = {} THEN data
    ELSE LET id == CHOOSE x \in ids : TRUE
         IN MergeEach(CounterMerge(data, id, incoming[id]), incoming,
                      ids \ {id})

\* A merge of every incoming entry, the one under the node's own id too.
MergeAll(self, data, incoming) ==
    MergeEach(data, incoming, DOMAIN incoming)

MergeOthers(self, data, incoming) ==
    MergeEach(data, incoming, DOMAIN incoming \ {self})

\* A ring that does not wrap: the last id has no follower.
RingNoWrap(ids) ==
    [k \in Range(ids) |->
        LET index == CHOOSE i \in 1..Len(ids) :
                         /\ ids[i] = k
                         /\ \A j \in 1..Len(ids) : ids[j] = k => j <= i
        IN IF index + 1 <= Len(ids) THEN << ids[index + 1] >> ELSE <<>>]

\* Topology::RingTopology.get_topology: the follower of every id.
RingTopology(ids) ==
    [k \in Range(ids) |->
        LET index == CHOOSE i \in 1..Len(ids) :
                         /\ ids[i] = k
                         /\ \A j \in 1..Len(ids) : ids[j] = k => j <= i
        IN << IF index + 1 <= Len(ids) THEN ids[index + 1] ELSE ids[1] >>]

\* Node::init of the g-counter node: the reply to an init first line.
GInitOk(req) ==
    GMsg(req.node_id, req.src, "init_ok", NoId, req.msg_id, 0, 0, <<>>)

\* A reply body of the g-counter node; GNoBody is the None of Node::handle.
GBody(type, in_reply_to, value, data) ==
    [type |-> type, in_reply_to |-> in_reply_to, value |-> value,
     counter |-> data]

GNoBody == GBody("none", NoId, 0, <<>>)

\* Node::handle, arm MessageBody::Read, on the state st = [counter,
\* last_message_id].
GHandleRead(st, req) ==
    Handled(st, GBody("read_ok", req.msg_id, CounterSum(st.counter), <<>>),
            FALSE)

\* Node::handle, arm MessageBody::Add, of the node with id self.
GHandleAdd(self, st, req) ==
    LET last_msg_id == st.last_message_id + 1
    IN Handled([counter |-> CounterAdd(st.counter, self,
                                CounterValue(last_msg_id, req.delta)),
                last_message_id |-> last_msg_id],
               GBody("add_ok", req.msg_id, 0, <<>>), FALSE)

\* Node::handle, arm MessageBody::Gossip.
GHandleGossip(self, st, req) ==
    LET after == [st EXCEPT
                    !.counter = MergeOthers(self, @, req.counter)]
    IN Handled(after, GBody("gossip_ok", req.msg_id, 0, after.counter), FALSE)

\* Node::handle, arm MessageBody::GossipOk.
GHandleGossipOk(self, st, req) ==
    Handled([st EXCEPT !.counter = MergeOthers(self, @, req.counter)],
            GNoBody, FALSE)

\* Node::handle of the g-counter node with id self.
GHandle(self, st, req) ==
    CASE req.type = "read" -> GHandleRead(st, req)
      [] req.type = "add" -> GHandleAdd(self, st, req)
      [] req.type = "gossip" -> GHandleGossip(self, st, req)
      [] req.type = "gossip_ok" -> GHandleGossipOk(self, st, req)

\* The envelope Node::handle of the g-counter node puts around a reply body.
GEnvelope(self, req, body) ==
    IF body.type = "none" THEN <<>>
    ELSE << GMsg(self, req.src, body.type, NoId, body.in_reply_to, 0,
                 body.value, body.counter) >>

GState(n) == [counter |-> counter[n], last_message_id |-> last_message_id[n]]

\* One g-counter process awaiting its first line; its peers are outside the
\* model and the harness delivers whatever they may send.
InitG == workload = "g-counter" /\ InitNode

\* main of the g-counter node up to the spawn of its threads: the first line
\* is an init from a client; Node::init derives the ring and writes init_ok,
\* main reads the neighbors of the node for its gossip thread.
GInit(n) ==
    /\ workload = "g-counter"
    /\ status[n] = "boot"
    /\ \E c \in Requests :
          LET req == [src |-> c[1], dest |-> n, type |-> "init",
                      msg_id |-> c[2], node_id |-> n, node_ids |-> NodeIds]
              topology == RingTopology(req.node_ids)
          IN /\ node_id' = [node_id EXCEPT ![n] = req.node_id]
             /\ node_ids' = [node_ids EXCEPT ![n] = req.node_ids]
             /\ neighbors' = [neighbors EXCEPT ![n] = topology[req.node_id]]
             /\ step' = [node |-> n,
                         handled |-> <<GMsg(c[1], n, "init", c[2], NoId, 0, 0,
                                            <<>>)>>,
                         written |-> <<GInitOk(req)>>]
    /\ status' = [status EXCEPT ![n] = "run"]
    /\ gossip' = [gossip EXCEPT ![n] = "run"]
    /\ stdin' = [stdin EXCEPT ![n] = "read"]
    /\ UNCHANGED <<workload, last_message_id, bVars, gVars, uVars, bus, net,
                   inputs_open, hVars, gossip_ids>>

\* The add requests waiting in the channel of node n.
AddsWaiting(n) == Len(SelectSeq(bus[n], LAMBDA e : e.msg.type = "add"))

\* How far last_message_id of node n stays below MaxMsgId once the adds
\* waiting in its channel are handled.
Headroom(n) == MaxMsgId - last_message_id[n] - AddsWaiting(n)

\* The deltas of the add requests waiting in the channel b.
RECURSIVE DeltasWaiting(_)
DeltasWaiting(b) ==
    IF b = <<>> THEN 0
    ELSE (IF Head(b).msg.type = "add" THEN Head(b).msg.delta ELSE 0)
         + DeltasWaiting(Tail(b))

\* The sum of the deltas the clients have sent to the nodes of S so far, on
\* top of the sum total handled elsewhere.
RECURSIVE Offered(_, _)
Offered(S, total) ==
    IF S = {} THEN total
    ELSE LET n == CHOOSE x \in S : TRUE
         IN DeltasWaiting(bus[n]) + Offered(S \ {n}, total)

\* A client sends add with a delta of ds to node n.
GStdinAdd(n, ds) ==
    /\ workload = "g-counter"
    /\ inputs_open
    /\ Headroom(n) >= 1
    /\ \E c \in Writers, d \in ds :
          /\ Offered(Nodes, applied) + d <= MaxSum
          /\ Enqueue(n, GMsg(c[1], n, "add", c[2], NoId, d, 0, <<>>))
    /\ UNCHANGED <<idVars, last_message_id, neighbors, bVars, gVars, uVars,
                   gossip, net, inputs_open, hVars, gossip_ids, stdin>>

\* A client sends read to node n.
GStdinRead(n) ==
    /\ workload = "g-counter"
    /\ \E c \in Writers :
          Enqueue(n, GMsg(c[1], n, "read", c[2], NoId, 0, 0, <<>>))
    /\ UNCHANGED <<idVars, last_message_id, neighbors, bVars, gVars, uVars,
                   gossip, net, inputs_open, hVars, gossip_ids, stdin>>

\* The counters a peer p outside the model sends to node n: its own entry in
\* two versions, and an entry under the id of n itself.
PeerCounters(n, p) ==
    { <<>>,
      p :> CounterValue(1, 1),
      (p :> CounterValue(2, 2)) @@ (n :> CounterValue(5, 3)) }

\* The harness delivers a gossip or a gossip_ok of a peer outside the model.
GStdinPeer(n) ==
    /\ workload = "g-counter"
    /\ \E p \in Nodes :
          /\ p = Peer(n)
          /\ status[p] = "ext"
          /\ \E data \in PeerCounters(n, p) :
                \/ \E i \in PeerMsgIds :
                      Enqueue(n, GMsg(p, n, "gossip", i, NoId, 0, 0, data))
                \/ Enqueue(n, GMsg(p, n, "gossip_ok", NoId, 1, 0, 0, data))
    /\ UNCHANGED <<idVars, last_message_id, neighbors, bVars, gVars, uVars,
                   gossip, net, inputs_open, hVars, gossip_ids, stdin>>

\* The Push events of one tick of the g-counter gossip thread.
RECURSIVE GPushes(_, _, _)
GPushes(n, nbrs, msg_id) ==
    IF nbrs = <<>> THEN <<>>
    ELSE << Push(GMsg(node_id[n], Head(nbrs), "gossip", msg_id + 1, NoId, 0,
                      0, counter[n])) >>
         \o GPushes(n, Tail(nbrs), msg_id + 1)

\* The loop of the g-counter gossip thread without the store of msg_id at
\* its end.
GGossipTickNoStore(n) ==
    /\ workload = "g-counter"
    /\ status[n] = "run"
    /\ gossip[n] = "run"
    /\ neighbors[n] # <<>>
    /\ Len(Kind(bus[n], "Push")) < MaxBus
    /\ Traffic < MaxFlight
    /\ Headroom(n) >= Len(neighbors[n])
    /\ bus' = [bus EXCEPT
          ![n] = @ \o GPushes(n, neighbors[n], last_message_id[n])]
    /\ step' = NoStep
    /\ UNCHANGED <<idVars, last_message_id, neighbors, bVars, gVars, uVars,
                   gossip, net, inputs_open, hVars, gossip_ids, stdin>>

\* One iteration of the loop of the g-counter gossip thread.
GGossipTick(n) ==
    /\ workload = "g-counter"
    /\ status[n] = "run"
    /\ gossip[n] = "run"
    /\ IF neighbors[n] = <<>>
       THEN /\ gossip' = [gossip EXCEPT ![n] = "done"]
            /\ UNCHANGED <<bus, last_message_id>>
       ELSE /\ Len(Kind(bus[n], "Push")) < MaxBus
            /\ Traffic < MaxFlight
            /\ Headroom(n) >= Len(neighbors[n])
            /\ bus' = [bus EXCEPT
                  ![n] = @ \o GPushes(n, neighbors[n], last_message_id[n])]
            /\ last_message_id' = [last_message_id EXCEPT
                  ![n] = @ + Len(neighbors[n])]
            /\ UNCHANGED gossip
    /\ step' = NoStep
    /\ UNCHANGED <<idVars, neighbors, bVars, gVars, uVars, net, inputs_open,
                   hVars, gossip_ids, stdin>>

\* One iteration of the consumer loop of main on a Reply or a Push event.
GConsume(n) ==
    /\ workload = "g-counter"
    /\ status[n] = "run"
    /\ bus[n] # <<>>
    /\ LET evt == Head(bus[n])
           r == GHandle(node_id[n], GState(n), evt.msg)
           pushed == IF evt.kind = "Push" THEN <<evt.msg>> ELSE <<>>
           out == pushed \o GEnvelope(node_id[n], evt.msg, r.body)
       IN /\ bus' = [bus EXCEPT ![n] = Tail(@)]
          /\ counter' = [counter EXCEPT ![n] = r.st.counter]
          /\ last_message_id' =
                [last_message_id EXCEPT ![n] = r.st.last_message_id]
          /\ net' = net \cup {m \in ToNodes(out) : status[m.dest] # "ext"}
          /\ step' = [node |-> n, handled |-> <<evt.msg>>, written |-> out]
          /\ gossip_ids' = [gossip_ids EXCEPT
                ![n] = Emitted(@, GossipIdsOf(out))]
          /\ applied' =
                IF evt.msg.type = "add" THEN applied + evt.msg.delta
                ELSE applied
          /\ last_read' =
                IF evt.msg.type = "read"
                THEN [last_read EXCEPT ![n] = r.body.value]
                ELSE last_read
    /\ UNCHANGED <<idVars, neighbors, bVars, uVars, gossip, inputs_open,
                   hVars, stdin>>

NextG ==
    \/ \E n \in Nodes : GInit(n)
    \/ \E n \in Nodes : GStdinAdd(n, Deltas)
    \/ \E n \in Nodes : GStdinRead(n)
    \/ \E n \in Nodes : StdinNet(n)
    \/ \E n \in Nodes : GStdinPeer(n)
    \/ \E n \in Nodes : GGossipTick(n)
    \/ \E n \in Nodes : GConsume(n)

SpecG == InitG /\ [][NextG]_vars

\* The value the map data holds under id, 0 when it holds none.
ValueOf(data, id) == IF id \in DOMAIN data THEN data[id].value ELSE 0

\* C26: a g-counter node with last_message_id L and the value V under its
\* own id (0 if it has no entry) that handles an add of delta has afterwards
\* last_message_id L + 1 and the own entry (version L + 1, value V + delta),
\* every other entry as before, and has written one add_ok.
C26_AddTransition ==
    [][\A n \in Nodes :
          /\ workload = "g-counter"
          /\ status[n] = "run"
          /\ step'.node = n
          /\ step'.handled # <<>>
          /\ step'.handled[1].type = "add"
          => LET req == step'.handled[1]
                 L == last_message_id[n]
                 V == ValueOf(counter[n], node_id[n])
             IN /\ last_message_id'[n] = L + 1
                /\ DOMAIN counter'[n] = DOMAIN counter[n] \cup {node_id[n]}
                /\ counter'[n][node_id[n]] =
                      CounterValue(L + 1, V + req.delta)
                /\ \A id \in DOMAIN counter[n] \ {node_id[n]} :
                      counter'[n][id] = counter[n][id]
                /\ Len(step'.written) = 1
                /\ step'.written[1].type = "add_ok"
                /\ step'.written[1].in_reply_to = req.msg_id
                /\ step'.written[1].dest = req.src]_vars

\* A g-counter node that holds an entry of its peer has just handled its
\* second add of a positive delta.
C26_Witness ==
    \E n \in Nodes :
        /\ workload = "g-counter"
        /\ step.node = n
        /\ step.handled # <<>>
        /\ step.handled[1].type = "add"
        /\ step.handled[1].delta > 0
        /\ n \in DOMAIN counter[n]
        /\ counter[n][n].value > step.handled[1].delta
        /\ DOMAIN counter[n] # {n}

\* The entry the map data holds under id, as a sequence of at most one.
EntryOf(data, id) == IF id \in DOMAIN data THEN <<data[id]>> ELSE <<>>

\* C27: the entry a g-counter node holds under its own id changes only in
\* a step that handles an add; a step that handles a gossip or a gossip_ok,
\* whatever its snapshot carries under the node's id, leaves that entry and
\* last_message_id as they were, drops no entry, and changes the entry of
\* another owner only to the incoming one, when none was held or when the
\* incoming version is strictly greater.
C27_OwnerOnlyMutation ==
    [][\A n \in Nodes :
          workload = "g-counter" /\ status[n] = "run"
          => /\ EntryOf(counter'[n], node_id[n])
                    # EntryOf(counter[n], node_id[n])
                => /\ step'.node = n
                   /\ step'.handled # <<>>
                   /\ step'.handled[1].type = "add"
             /\ /\ step'.node = n
                /\ step'.handled # <<>>
                /\ step'.handled[1].type \in {"gossip", "gossip_ok"}
                => LET incoming == step'.handled[1].counter
                   IN /\ EntryOf(counter'[n], node_id[n])
                           = EntryOf(counter[n], node_id[n])
                      /\ last_message_id'[n] = last_message_id[n]
                      /\ DOMAIN counter[n] \subseteq DOMAIN counter'[n]
                      /\ \A id \in DOMAIN counter'[n] \ {node_id[n]} :
                            EntryOf(counter'[n], id) # EntryOf(counter[n], id)
                            => /\ id \in DOMAIN incoming
                               /\ counter'[n][id] = incoming[id]
                               /\ \/ id \notin DOMAIN counter[n]
                                  \/ incoming[id].msg_id
                                        > counter[n][id].msg_id]_vars

\* A g-counter node that holds an entry under its own id has just handled a
\* gossip or a gossip_ok whose snapshot carries another entry under that id
\* and a newer entry of its peer.
C27_Witness ==
    \E n \in Nodes :
        /\ workload = "g-counter"
        /\ step.node = n
        /\ step.handled # <<>>
        /\ step.handled[1].type \in {"gossip", "gossip_ok"}
        /\ n \in DOMAIN step.handled[1].counter
        /\ n \in DOMAIN counter[n]
        /\ step.handled[1].counter[n] # counter[n][n]
        /\ \E p \in DOMAIN counter[n] \ {n} :
              counter[n][p] = step.handled[1].counter[p]

----------------------------------------------------------------------------
(* The g-counter node started with any membership *)

\* The sequences over the set S of length k or less.
RECURSIVE SeqsUpTo(_, _)
SeqsUpTo(S, k) ==
    IF k = 0 THEN {<<>>}
    ELSE LET shorter == SeqsUpTo(S, k - 1)
         IN shorter \cup {Append(q, x) : q \in shorter, x \in S}

\* The node_ids lists the harness may send: non-empty, no id twice.
Memberships ==
    {ids \in SeqsUpTo(Nodes, Cardinality(Nodes)) :
        /\ ids # <<>>
        /\ \A i, j \in 1..Len(ids) : ids[i] = ids[j] => i = j}

\* main of the g-counter node up to the spawn of its threads, on an init
\* that names any membership the node is part of.
GInitAny(n) ==
    /\ workload = "g-counter"
    /\ status[n] = "boot"
    /\ \E c \in Writers, ids \in Memberships :
          LET req == [src |-> c[1], dest |-> n, type |-> "init",
                      msg_id |-> c[2], node_id |-> n, node_ids |-> ids]
              topology == RingTopology(req.node_ids)
          IN /\ n \in Range(ids)
             /\ node_id' = [node_id EXCEPT ![n] = req.node_id]
             /\ node_ids' = [node_ids EXCEPT ![n] = req.node_ids]
             /\ neighbors' = [neighbors EXCEPT ![n] = topology[req.node_id]]
             /\ step' = [node |-> n,
                         handled |-> <<GMsg(c[1], n, "init", c[2], NoId, 0, 0,
                                            <<>>)>>,
                         written |-> <<GInitOk(req)>>]
    /\ status' = [status EXCEPT ![n] = "run"]
    /\ gossip' = [gossip EXCEPT ![n] = "run"]
    /\ stdin' = [stdin EXCEPT ![n] = "read"]
    /\ UNCHANGED <<workload, last_message_id, bVars, gVars, uVars, bus, net,
                   inputs_open, hVars, gossip_ids>>

NextGR ==
    \/ \E n \in Nodes : GInitAny(n)
    \/ \E n \in Nodes : GStdinAdd(n, Deltas)
    \/ \E n \in Nodes : StdinNet(n)
    \/ \E n \in Nodes : GGossipTick(n)
    \/ \E n \in Nodes : GConsume(n)

SpecGR == InitG /\ [][NextGR]_vars

\* C25: for the membership ids of a running g-counter node (non-empty, no id
\* twice), the ring maps the id at every index i to the list of the one id
\* at index (i + 1) mod n, has an entry for every member and no other key,
\* and the neighbors the node computed at startup are that one id, so they
\* are never empty and its gossip thread is never stopped.
C25_RingTopology ==
    \A n \in Nodes :
        workload = "g-counter" /\ status[n] = "run" =>
            LET ids == node_ids[n]
                topology == RingTopology(ids)
            IN /\ DOMAIN topology = Range(ids)
               /\ \A i \in 1..Len(ids) :
                     topology[ids[i]] = << ids[(i % Len(ids)) + 1] >>
               /\ neighbors[n] = topology[node_id[n]]
               /\ neighbors[n] # <<>>
               /\ gossip[n] = "run"

\* A g-counter node that is the last of three members has written a gossip
\* to the first member.
C25_Witness ==
    \E n \in Nodes :
        /\ workload = "g-counter"
        /\ Len(node_ids[n]) = 3
        /\ node_ids[n][3] = n
        /\ step.node = n
        /\ step.written # <<>>
        /\ step.written[1].type = "gossip"
        /\ step.written[1].dest = node_ids[n][1]

----------------------------------------------------------------------------
(* The g-counter cluster: the nodes of RingIds are processes of the model,  *)
(* have been initialised with RingIds and their gossip threads are running, *)
(* on a harness that delays, reorders and repeats lines.                    *)

\* The membership of the g-counter cluster.
RingIds == <<"n1", "n2">>

\* The deltas the clients add at the nodes of the cluster.
ClusterDeltas == {1}

InitGC == InitCluster("g-counter", RingIds, RingTopology(RingIds))

\* The node of the cluster the clients read.
Readers == {RingIds[2]}

\* The harness delivers the line m of another node to node n and keeps a
\* copy, to deliver it once more later.
Duplicate(n, m) ==
    /\ m \in net
    /\ m.dest = n
    /\ m.src # n
    /\ faults < MaxFaults
    /\ Enqueue(n, m)
    /\ net' = net \ {m}
    /\ stale' = stale \cup {m}
    /\ faults' = faults + 1
    /\ UNCHANGED <<idVars, last_message_id, neighbors, bVars, gVars, uVars,
                   gossip, inputs_open, gossip_ids, stdin>>

\* The harness delivers the copy of line m it kept to node n.
Redeliver(n, m) ==
    /\ m \in stale
    /\ m.dest = n
    /\ Enqueue(n, m)
    /\ stale' = stale \ {m}
    /\ UNCHANGED <<idVars, last_message_id, neighbors, bVars, gVars, uVars,
                   gossip, net, inputs_open, faults, gossip_ids, stdin>>

NextGC ==
    \/ \E n \in Nodes : GStdinAdd(n, ClusterDeltas)
    \/ \E n \in Readers : GStdinRead(n)
    \/ \E n \in Nodes : StdinNet(n)
    \/ \E n \in Nodes : GGossipTick(n)
    \/ \E n \in Nodes : GConsume(n)
    \/ \E m \in net : Duplicate(m.dest, m)
    \/ \E m \in stale : Redeliver(m.dest, m)

SpecGC == InitGC /\ [][NextGC]_vars

\* The counter of node n holds under id an entry older than the one the line
\* m carries under it.
Older(m, n, id) ==
    /\ id \in DOMAIN m.counter
    /\ id \in DOMAIN counter[n]
    /\ m.counter[id].msg_id < counter[n][id].msg_id

\* C4: the deltas being non-negative, the values a node returns in its
\* successive read_ok replies never decrease, whatever the order in which the
\* adds, the gossips, the gossip_oks (late and repeated ones included) and
\* the ticks interleave.
C4_ReadsNeverDecrease ==
    [][\A n \in Nodes : last_read'[n] >= last_read[n]]_vars

\* A node that has returned a positive value has just handled a snapshot
\* that carries an entry older than the one it holds.
C4_Witness ==
    \E n \in Nodes :
        /\ workload = "g-counter"
        /\ last_read[n] > 0
        /\ step.node = n
        /\ step.handled # <<>>
        /\ step.handled[1].type \in {"gossip", "gossip_ok"}
        /\ \E id \in Nodes \ {n} : Older(step.handled[1], n, id)

\* The entries a node observes in the message handled in step s: the counter
\* a gossip or a gossip_ok carries.
Observed(s) ==
    IF s.handled = <<>> THEN <<>>
    ELSE IF s.handled[1].type \in {"gossip", "gossip_ok"}
         THEN s.handled[1].counter
         ELSE <<>>

\* C12: at every g-counter node and for every owner id, the stored entry
\* carries the maximum version among the entries for that owner the node has
\* observed (created by its add, or carried by a gossip or gossip_ok it
\* handled): no step removes an entry or lowers its version, and after a
\* step that handles a message the stored version of every owner the message
\* names is at least the version the message carries.
C12_VersionInvariant ==
    [][\A n \in Nodes :
          workload = "g-counter" =>
              /\ \A id \in DOMAIN counter[n] :
                    /\ id \in DOMAIN counter'[n]
                    /\ counter'[n][id].msg_id >= counter[n][id].msg_id
              /\ step'.node = n =>
                    \A id \in DOMAIN Observed(step') :
                       /\ id \in DOMAIN counter'[n]
                       /\ counter'[n][id].msg_id >=
                             Observed(step')[id].msg_id]_vars

\* A node has just handled a snapshot of the other node that carries, under
\* the node's own id, an entry older than the one the node holds.
C12_Witness ==
    \E n \in Nodes :
        /\ workload = "g-counter"
        /\ step.node = n
        /\ step.handled # <<>>
        /\ step.handled[1].type \in {"gossip", "gossip_ok"}
        /\ step.handled[1].src # n
        /\ Older(step.handled[1], n, n)

\* The lines of the cluster that carry a snapshot: the gossips and
\* gossip_oks on the harness, kept by it, or in the channel of a node.
SnapshotLines ==
    { m \in net \cup stale \cup
             UNION { { e.msg : e \in Range(bus[n]) } : n \in Nodes } :
        m.type \in {"gossip", "gossip_ok"} }

\* The snapshots of the run: the ones the lines carry, and the ones the
\* gossip threads would send now.
Snapshots ==
    { m.counter : m \in SnapshotLines }
        \cup { counter[n] : n \in Range(RingIds) }

\* The state of node n after it handles a line of the given type that
\* carries the snapshot s, starting in state st.
AfterSnapshot(n, st, type, s) ==
    GHandle(n, st, GMsg(Peer(n), n, type, NoId, NoId, 0, 0, s)).st

\* C28: for every node and any two snapshots of the run, handling a gossip
\* (or gossip_ok) with the one and then the other leaves the node in the
\* same state as handling them in the other order, and handling the same
\* snapshot twice leaves it in the same state as handling it once.
C28_MergeOrderInsensitive ==
    workload = "g-counter" =>
        \A n \in Range(RingIds) :
        \A t \in {"gossip", "gossip_ok"} :
        \A s1 \in Snapshots :
            LET st1 == AfterSnapshot(n, GState(n), t, s1)
            IN /\ AfterSnapshot(n, st1, t, s1) = st1
               /\ \A s2 \in Snapshots \ {s1} :
                     AfterSnapshot(n, st1, t, s2)
                        = AfterSnapshot(
                             n, AfterSnapshot(n, GState(n), t, s2), t, s1)

\* Two snapshots of the run carry different entries of one owner, and a
\* node that is not the owner holds an entry older than both, or none.
C28_Witness ==
    /\ workload = "g-counter"
    /\ \E n \in Range(RingIds) : \E o \in Range(RingIds) \ {n} :
       \E s1, s2 \in Snapshots :
          /\ o \in DOMAIN s1
          /\ o \in DOMAIN s2
          /\ s1[o] # s2[o]
          /\ \E m \in SnapshotLines : m.counter = s1 /\ m.dest = n
          /\ o \in DOMAIN counter[n] =>
                /\ counter[n][o].msg_id < s1[o].msg_id
                /\ counter[n][o].msg_id < s2[o].msg_id

\* The entries for owner o anywhere in the cluster: in the counter of a
\* node or in a snapshot a line carries.
EntriesOf(o) == { s[o] : s \in { x \in Snapshots : o \in DOMAIN x } }

\* C29: for every owner, any two entries for it anywhere (in the counter of
\* a node, or in a gossip or gossip_ok on its way) that carry the same
\* version carry the same value, and none carries a version greater than
\* the one of the entry the owner itself holds.
C29_VersionsIdentifyValues ==
    workload = "g-counter" =>
        \A o \in Range(RingIds) :
            /\ \A e1, e2 \in EntriesOf(o) :
                  e1.msg_id = e2.msg_id => e1.value = e2.value
            /\ EntriesOf(o) # {} =>
                  /\ o \in DOMAIN counter[o]
                  /\ \A e \in EntriesOf(o) :
                        e.msg_id <= counter[o][o].msg_id

\* The owner has added twice; the other node holds the entry of the first
\* add and a line on its way carries an entry of the owner.
C29_Witness ==
    /\ workload = "g-counter"
    /\ \E o \in Range(RingIds) : \E n \in Range(RingIds) \ {o} :
          /\ o \in DOMAIN counter[o]
          /\ o \in DOMAIN counter[n]
          /\ counter[n][o].msg_id < counter[o][o].msg_id
          /\ counter[n][o].value < counter[o][o].value
          /\ \E m \in SnapshotLines : o \in DOMAIN m.counter

\* C30: the deltas being non-negative, the value any node stores for an
\* owner is at most the value of the entry the owner itself holds, so the
\* sum a node holds, and the value a read returned, is at most the sum of
\* the deltas the adds have applied so far.
C30_NeverOverCounts ==
    workload = "g-counter" =>
        \A n \in Range(RingIds) :
            /\ \A o \in DOMAIN counter[n] :
                  /\ o \in DOMAIN counter[o]
                  /\ counter[n][o].value <= counter[o][o].value
            /\ CounterSum(counter[n]) <= applied
            /\ last_read[n] <= applied
            /\ /\ step.node = n
               /\ step.handled # <<>>
               /\ step.handled[1].type = "read"
               => step.written[1].value <= applied

\* A node has just returned, in a read_ok, the sum of the deltas applied at
\* both nodes, part of it a value it stores for the other node.
C30_Witness ==
    \E n \in Range(RingIds) : \E o \in Range(RingIds) \ {n} :
        /\ workload = "g-counter"
        /\ step.node = n
        /\ step.handled # <<>>
        /\ step.handled[1].type = "read"
        /\ step.written[1].value = applied
        /\ o \in DOMAIN counter[n]
        /\ n \in DOMAIN counter[n]
        /\ counter[n][o].value > 0
        /\ counter[n][n].value > 0

----------------------------------------------------------------------------
(* The g-counter cluster on a harness that loses lines, with clients that   *)
(* stop adding.                                                             *)

NextGL ==
    \/ \E n \in Nodes : GStdinAdd(n, ClusterDeltas)
    \/ \E n \in Nodes : StdinNet(n)
    \/ \E n \in Nodes : GGossipTick(n)
    \/ \E n \in Nodes : GConsume(n)
    \/ \E m \in net : Drop(m)
    \/ CloseInputs

SpecGL == InitGC /\ [][NextGL]_vars

\* The gossip thread wakes every 250 ms, the main thread consumes every event
\* of its channel, the stdin thread reads every line the harness delivers; the
\* harness loses finitely many lines.  The bounds of the model disable a tick
\* now and then, so the fair schedule of the ticks is the strongly fair one.
FairGL ==
    /\ \A n \in Nodes : SF_vars(GGossipTick(n))
    /\ \A n \in Nodes : WF_vars(GConsume(n))
    /\ \A n \in Nodes : WF_vars(StdinNet(n))

FairSpecGL == SpecGL /\ FairGL

\* No more add arrives: the clients have stopped and every add is handled.
AddsDone == ~inputs_open /\ \A n \in Nodes : AddsWaiting(n) = 0

\* Within MaxMsgId, every node of the cluster can still take one tick more
\* than the harness can still lose lines.
TicksLeft ==
    \A n \in Range(RingIds) : Headroom(n) >= 1 + (MaxFaults - faults)

\* A read at any node of the cluster returns the sum of all deltas applied.
GConverged ==
    \A n \in Range(RingIds) : CounterSum(counter[n]) = applied

\* C3: once no more add arrives, every node's read eventually and forever
\* returns the sum of all deltas ever applied at any node, on a harness that
\* delays, reorders and loses lines (as far as the bound on last_message_id
\* leaves every node the ticks that outnumber the losses).
C3_GCounterConvergence == [](AddsDone /\ TicksLeft => <>[]GConverged)

\* Both nodes have applied a delta, a line was lost, no more add arrives, and
\* every node holds the sum.
C3_Witness ==
    /\ workload = "g-counter"
    /\ AddsDone
    /\ faults > 0
    /\ applied = MaxSum
    /\ \A n \in Range(RingIds) :
          n \in DOMAIN counter[n] /\ counter[n][n].value > 0
    /\ GConverged

----------------------------------------------------------------------------
(* Properties of the g-counter node *)

\* C7: last_message_id of a g-counter node never decreases, and the msg_ids
\* of the gossips it writes are strictly increasing in the order it writes
\* them, however the handling of adds and the ticks interleave.
C7_GCounterMsgIdsIncrease ==
    [][\A n \in Nodes :
          /\ last_message_id'[n] >= last_message_id[n]
          /\ Increasing(gossip_ids'[n])]_vars

\* A g-counter node has written two gossips with an add handled between the
\* ticks that stamped them.
C7_Witness ==
    \E n \in Nodes :
        /\ workload = "g-counter"
        /\ Len(gossip_ids[n]) = 2
        /\ gossip_ids[n][1] >= 1
        /\ gossip_ids[n][2] > gossip_ids[n][1] + 1

----------------------------------------------------------------------------
(* The unique-id cluster: every process reads its lines and handles them    *)
(* one after the other; node ids and ids are sequences of characters.       *)

\* generate requests the model lets a unique-id node handle.
MaxGen == 11

\* The node ids the harness of the model gives the unique-id nodes.
UNames == << <<"n">>, <<"n", "1">>, <<"n", ":", "1">> >>

\* The clients of the unique-id and echo nodes, each with the msg_id it stamps
\* on its requests.
UClients == { << <<"c", "1">>, 7 >>, << <<"c", "2">>, 9 >> }

UMsg(src, dest, type, msg_id, in_reply_to, id) ==
    [src |-> src, dest |-> dest, type |-> type, msg_id |-> msg_id,
     in_reply_to |-> in_reply_to, id |-> id]

\* The decimal digits of the natural number k, as format! writes a u32.
RECURSIVE Digits(_)
Digits(k) ==
    LET digit == <<"0", "1", "2", "3", "4", "5", "6", "7", "8", "9">>
    IN IF k < 10 THEN <<digit[k + 1]>>
       ELSE Digits(k \div 10) \o <<digit[(k % 10) + 1]>>

\* An id format that leaves the separator out.
FormatNoSeparator(self, k) == self \o Digits(k)

\* format!("{}:{}", self.node_id, self.state.last_message_id)
Format(self, k) == self \o <<":">> \o Digits(k)

\* Node::init of the unique-id node: the reply to an init first line.
UInitOk(req) ==
    UMsg(req.node_id, req.src, "init_ok", NoId, req.msg_id, <<>>)

\* Node::handle of the unique-id node with id self, arm MessageBody::Generate,
\* on the state st = [last_message_id]; its envelope included.
UHandle(self, st, req) ==
    LET after == [last_message_id |-> st.last_message_id + 1]
    IN [st |-> after,
        reply |-> UMsg(self, req.src, "generate_ok", NoId, req.msg_id,
                       Format(self, after.last_message_id))]

\* Three unique-id processes await their first lines.
InitU ==
    /\ workload = "unique-id"
    /\ status = [n \in Nodes |-> "boot"]
    /\ node_id = [n \in Nodes |-> <<>>]
    /\ node_ids = [n \in Nodes |-> <<>>]
    /\ gossip = [n \in Nodes |-> "none"]
    /\ stdin = [n \in Nodes |-> "none"]
    /\ neighbors = [n \in Nodes |-> <<>>]
    /\ InitState

\* main of the unique-id node up to its loop: the first line is an init that
\* gives the process a node id no other process has.
UInit(n) ==
    /\ workload = "unique-id"
    /\ status[n] = "boot"
    /\ \E c \in UClients, name \in Range(UNames) :
          LET req == [src |-> c[1], dest |-> name, type |-> "init",
                      msg_id |-> c[2], node_id |-> name, node_ids |-> UNames]
          IN /\ \A p \in Nodes \ {n} : node_id[p] # name
             /\ node_id' = [node_id EXCEPT ![n] = req.node_id]
             /\ node_ids' = [node_ids EXCEPT ![n] = req.node_ids]
             /\ step' = [node |-> n,
                         handled |-> <<UMsg(c[1], name, "init", c[2], NoId,
                                            <<>>)>>,
                         written |-> <<UInitOk(req)>>]
    /\ status' = [status EXCEPT ![n] = "run"]
    /\ UNCHANGED <<workload, last_message_id, neighbors, bVars, gVars, uVars,
                   gossip, bus, net, inputs_open, hVars, gossip_ids, stdin>>

\* One iteration of the loop of main: a client's generate is read, handled
\* and answered.
UGenerate(n) ==
    /\ workload = "unique-id"
    /\ status[n] = "run"
    /\ last_message_id[n] < MaxGen
    /\ \E c \in UClients :
          LET req == UMsg(c[1], node_id[n], "generate", c[2], NoId, <<>>)
              r == UHandle(node_id[n], [last_message_id |-> last_message_id[n]],
                           req)
          IN /\ last_message_id' =
                   [last_message_id EXCEPT ![n] = r.st.last_message_id]
             /\ step' = [node |-> n, handled |-> <<req>>,
                         written |-> <<r.reply>>]
             /\ issued' = issued \cup {r.reply.id}
             /\ reissued' = (reissued \/ r.reply.id \in issued)
    /\ UNCHANGED <<idVars, neighbors, bVars, gVars, gossip, bus, net,
                   inputs_open, hVars, gossip_ids, stdin>>

NextU ==
    \/ \E n \in Nodes : UInit(n)
    \/ \E n \in Nodes : UGenerate(n)

SpecU == InitU /\ [][NextU]_vars

\* C5: all the ids the generate_ok replies of the nodes of a unique-id
\* cluster carry are pairwise distinct, the node ids being pairwise distinct.
C5_UniqueIds == workload = "unique-id" => ~reissued

\* Every node has issued ids, one of them ids of one and of two digits, and one
\* node id is another one followed by a digit.
C5_Witness ==
    /\ workload = "unique-id"
    /\ \A n \in Nodes : last_message_id[n] >= 1
    /\ \E n, p \in Nodes :
          /\ last_message_id[n] >= 10
          /\ node_id[p] = node_id[n] \o <<"1">>
          /\ last_message_id[p] >= 1

----------------------------------------------------------------------------
(* The echo node *)

\* The payloads the clients send to echo.
Payloads == {"hi", ""}

EMsg(src, dest, type, msg_id, in_reply_to, echo) ==
    [src |-> src, dest |-> dest, type |-> type, msg_id |-> msg_id,
     in_reply_to |-> in_reply_to, echo |-> echo]

\* Node::init of the echo node: the reply to an init first line.
EInitOk(req) ==
    EMsg(req.node_id, req.src, "init_ok", NoId, req.msg_id, "")

\* Node::handle of the echo node with id self, arm MessageBody::Echo; its
\* envelope included.
EHandle(self, req) ==
    EMsg(self, req.src, "echo_ok", NoId, req.msg_id, req.echo)

\* One echo process awaits its first line.
InitE == workload = "echo" /\ InitNode

\* The echo node up to its loop: the first line is an init from a client.
EInit(n) ==
    /\ workload = "echo"
    /\ status[n] = "boot"
    /\ \E c \in Requests :
          LET req == [src |-> c[1], dest |-> n, type |-> "init",
                      msg_id |-> c[2], node_id |-> n, node_ids |-> NodeIds]
          IN /\ node_id' = [node_id EXCEPT ![n] = req.node_id]
             /\ node_ids' = [node_ids EXCEPT ![n] = req.node_ids]
             /\ step' = [node |-> n,
                         handled |-> <<EMsg(c[1], n, "init", c[2], NoId, "")>>,
                         written |-> <<EInitOk(req)>>]
    /\ status' = [status EXCEPT ![n] = "run"]
    /\ UNCHANGED <<workload, last_message_id, neighbors, bVars, gVars, uVars,
                   gossip, bus, net, inputs_open, hVars, gossip_ids, stdin>>

\* A client's echo is read, handled and answered.
EEcho(n) ==
    /\ workload = "echo"
    /\ status[n] = "run"
    /\ \E c \in Requests, payload \in Payloads :
          LET req == EMsg(c[1], node_id[n], "echo", c[2], NoId, payload)
          IN step' = [node |-> n, handled |-> <<req>>,
                      written |-> <<EHandle(node_id[n], req)>>]
    /\ UNCHANGED <<idVars, last_message_id, neighbors, bVars, gVars, uVars,
                   gossip, bus, net, inputs_open, hVars, gossip_ids, stdin>>

NextE ==
    \/ \E n \in Nodes : EInit(n)
    \/ \E n \in Nodes : EEcho(n)

----------------------------------------------------------------------------
(* Every workload: a node of any of the four binaries, and what its main    *)
(* thread reads and writes in a step.                                       *)

Init == InitB \/ InitG \/ InitU \/ InitE

Next == NextB \/ NextG \/ NextU \/ NextE

Spec == Init /\ [][Next]_vars

\* The types of the requests that carry a msg_id.
RequestTypes ==
    {"init", "echo", "generate", "broadcast", "read", "topology", "add",
     "gossip"}

\* The replies among the lines ms: the lines that name a message they answer.
Replies(ms) == SelectSeq(ms, LAMBDA m : m.type \notin {"gossip"})

\* C8: in every workload, a node writes at most one reply to a message it
\* handles, and the reply to a request that carries a msg_id names that msg_id
\* in its in_reply_to.
C8_ReplyCorrelation ==
    step.handled # <<>> =>
        LET req == step.handled[1]
            replies == Replies(step.written)
        IN /\ Len(replies) <= 1
           /\ req.type \in RequestTypes =>
                 \A i \in 1..Len(replies) :
                    replies[i].in_reply_to = req.msg_id

\* A node has handled a gossip its own gossip thread pushed: it has written
\* the gossip and the one reply to it.
C8_Witness ==
    /\ step.handled # <<>>
    /\ step.handled[1].type = "gossip"
    /\ Len(step.written) = 2
    /\ step.written[1] = step.handled[1]
    /\ step.written[2].type = "gossip_ok"
    /\ step.written[2].in_reply_to = step.handled[1].msg_id
    /\ step.handled[1].msg_id > 1

\* C9: every line a node writes has the node's own id as its src, and as its
\* dest a member of node_ids or the src of the inbound message the node is
\* handling.
C9_OutboundAddressing ==
    step.handled # <<>> =>
        LET req == step.handled[1]
            self == step.node
        IN \A i \in 1..Len(step.written) :
              /\ step.written[i].src = node_id[self]
              /\ \/ step.written[i].dest = req.src
                 \/ step.written[i].dest \in Range(node_ids[self])

\* A node has written a gossip to a neighbor and a reply to itself, after a
\* reply to a client.
C9_Witness ==
    /\ step.handled # <<>>
    /\ Len(step.written) = 2
    /\ step.written[1].type = "gossip"
    /\ step.written[1].dest \in Range(node_ids[step.node]) \ {step.node}
    /\ step.written[1].src = step.node
    /\ step.written[2].dest = step.node

----------------------------------------------------------------------------
(* The threads of a broadcast or g-counter node and the state mutex: the     *)
(* gossip thread holds it from the lock of a tick to the end of the          *)
(* iteration, its sends in between; a handler call holds it for the length   *)
(* of one arm, in which nothing waits.                                       *)

\* The g-counter gossip thread wakes and locks the state; without neighbors
\* it breaks.
GTickLock(n) ==
    /\ workload = "g-counter"
    /\ status[n] = "run"
    /\ gossip[n] = "run"
    /\ IF neighbors[n] = <<>>
       THEN gossip' = [gossip EXCEPT ![n] = "done"]
       ELSE /\ Len(Kind(bus[n], "Push")) < MaxBus
            /\ Traffic < MaxFlight
            /\ Headroom(n) >= Len(neighbors[n])
            /\ gossip' = [gossip EXCEPT ![n] = "locked"]
    /\ step' = NoStep
    /\ UNCHANGED <<idVars, last_message_id, neighbors, bVars, gVars, uVars,
                   stdin, bus, net, inputs_open, hVars, gossip_ids>>

\* The for loop of the tick: one gossip_tx.send per neighbor, state_guard
\* held.
GTickSend(n) ==
    /\ workload = "g-counter"
    /\ status[n] = "run"
    /\ gossip[n] = "locked"
    /\ ~ChannelFull(bus[n])
    /\ bus' = [bus EXCEPT
          ![n] = @ \o GPushes(n, neighbors[n], last_message_id[n])]
    /\ gossip' = [gossip EXCEPT ![n] = "sent"]
    /\ step' = NoStep
    /\ UNCHANGED <<idVars, last_message_id, neighbors, bVars, gVars, uVars,
                   stdin, net, inputs_open, hVars, gossip_ids>>

\* The end of the iteration: the store of msg_id, then state_guard goes out
\* of scope.
GTickUnlock(n) ==
    /\ workload = "g-counter"
    /\ status[n] = "run"
    /\ gossip[n] = "sent"
    /\ last_message_id' = [last_message_id EXCEPT
          ![n] = @ + Len(neighbors[n])]
    /\ gossip' = [gossip EXCEPT ![n] = "run"]
    /\ step' = NoStep
    /\ UNCHANGED <<idVars, neighbors, bVars, gVars, uVars, stdin, bus, net,
                   inputs_open, hVars, gossip_ids>>

\* One iteration of the g-counter consumer loop; Node::handle waits for the
\* mutex.
GConsumeLocking(n) ==
    /\ ~GossipHoldsLock(n)
    /\ GConsume(n)

InitM == InitB \/ InitG

NextM ==
    \/ \E n \in Nodes : BInit(n)
    \/ \E n \in Nodes : BStdinBroadcast(n, Values)
    \/ \E n \in Nodes : BStdinRead(n)
    \/ \E n \in Nodes : BStdinTopology(n)
    \/ \E n \in Nodes : BStdinPeer(n)
    \/ \E n \in Nodes : BStdinEof(n)
    \/ \E n \in Nodes : BTickLock(n)
    \/ \E n \in Nodes : BTickSend(n)
    \/ \E n \in Nodes : BTickUnlock(n)
    \/ \E n \in Nodes : BConsumeLocking(n)
    \/ \E n \in Nodes : BExit(n)
    \/ \E n \in Nodes : GInit(n)
    \/ \E n \in Nodes : GStdinAdd(n, Deltas)
    \/ \E n \in Nodes : GStdinRead(n)
    \/ \E n \in Nodes : GStdinPeer(n)
    \/ \E n \in Nodes : GTickLock(n)
    \/ \E n \in Nodes : GTickSend(n)
    \/ \E n \in Nodes : GTickUnlock(n)
    \/ \E n \in Nodes : GConsumeLocking(n)
    \/ \E n \in Nodes : StdinNet(n)

SpecM == InitM /\ [][NextM]_vars

\* A step of the gossip thread of the node between the lock of a tick and
\* the end of the iteration.
GossipInside ==
    \E n \in Nodes :
        \/ BTickSend(n) \/ BTickUnlock(n)
        \/ GTickSend(n) \/ GTickUnlock(n)

\* A step of the main thread of the node on the event at the head of its
\* channel.
MainStep ==
    \E n \in Nodes : BConsumeLocking(n) \/ GConsumeLocking(n) \/ BExit(n)

\* A thread that is not waiting takes its next step: the gossip thread goes
\* on from its lock to its sends and to the end of its iteration, the main
\* thread handles the event it received once the mutex is free.
FairM == WF_vars(GossipInside) /\ WF_vars(MainStep)

FairSpecM == SpecM /\ FairM

\* The gossip thread of the running node holds the state mutex.
MutexHeld == \E n \in Nodes : status[n] = "run" /\ GossipHoldsLock(n)

\* The channel of the running node holds an event, and the last step was
\* not one of its main thread.
EventWaits ==
    \E n \in Nodes : status[n] = "run" /\ bus[n] # <<>> /\ step.node # n

\* The last step was one of the main thread of the node.
MainStepped == \E n \in Nodes : status[n] # "ext" /\ step.node = n

\* C32: in a broadcast and in a g-counter node no thread waits forever for
\* the state mutex or for the channel: a gossip thread that holds the mutex
\* releases it, and whenever the channel of the running node holds an event
\* (a handler call may be waiting for the mutex) the main thread takes its
\* next step, so every event sent before the Shutdown is consumed.
C32_DeadlockFreedom ==
    /\ MutexHeld ~> ~MutexHeld
    /\ EventWaits ~> MainStepped

\* The gossip thread of a node holds the mutex, its Push events sent, and a
\* Reply the main thread has to handle is ahead of them in the channel.
C32_Witness ==
    \E n \in Nodes :
        /\ status[n] = "run"
        /\ gossip[n] = "sent"
        /\ Len(bus[n]) >= 2
        /\ Head(bus[n]).kind = "Reply"
        /\ bus[n][Len(bus[n])].kind = "Push"

====
